---- MODULE Spec2Model ----
(***************************************************************************)
(* RentPilot: the deterministic decision layer (policy.py), the data tools *)
(* (lambdas/*.py over providers/housing_data.py) and the orchestrator with *)
(* its local verify pass (agent_bedrock.py).                               *)
(*                                                                         *)
(* Units.  Python floats are modelled by exact integer arithmetic:         *)
(*   money            units of 100 CAD   (24 = 2400 CAD/month)             *)
(*   ratios           hundredths         (30 = 0.30)                       *)
(*   min_transit      halves             (141 = 70.5)                      *)
(*   distances        kilometres                                           *)
(*   scores           thousandths        (827 = 0.827)                     *)
(* Comparisons of quotients are cross-multiplied, so they are exact.       *)
(***************************************************************************)
EXTENDS Integers, Sequences, FiniteSets, TLC

(***************************************************************************)
(* Bounds of the model.                                                    *)
(***************************************************************************)
MaxRows == 3
MaxWords == 2
MaxActions == 2
MaxRankRows == 4
MaxWrites == 2

(***************************************************************************)
(* Python values: a number, None, a non-numeric string, or an absent key.  *)
(***************************************************************************)
Num(n) == [t |-> "num", n |-> n]
None == [t |-> "none", n |-> 0]
Str == [t |-> "str", n |-> 0]
Absent == [t |-> "absent", n |-> 0]

IsNum(v) == v.t = "num"
\* dict.get(k): an absent key reads as None
Get(v) == IF v.t = "absent" THEN None ELSE v
\* dict.get(k, d)
GetOr(v, d) == IF v.t = "absent" THEN d ELSE v
\* truthiness of a scalar value
Truthy(v) == (v.t = "num" /\ v.n # 0) \/ v.t = "str"

Max2(a, b) == IF a >= b THEN a ELSE b
Min2(a, b) == IF a <= b THEN a ELSE b

\* float(x) with a fallback: float(None) and float("abc") raise
_safe_float(x, default) == IF IsNum(x) THEN x.n ELSE default

_clamp(v, lo, hi) == Max2(lo, Min2(hi, v))

\* nearest integer to a/b for b > 0 (round)
RoundDiv(a, b) == (2 * a + b) \div (2 * b)

\* int(a/b) for b > 0: truncation toward zero
TruncDiv(a, b) == IF a >= 0 THEN a \div b ELSE -((-a) \div b)

(***************************************************************************)
(* providers/housing_data.py                                               *)
(***************************************************************************)
_SUPPORTED_PROPS == {"studio", "1bed", "2bed", "3bed"}

\* str.lower() on the property-type strings of the model
LowerProp(p) ==
    CASE p = "1BED" -> "1bed"
      [] p = "2Bed" -> "2bed"
      [] OTHER -> p

\* str(city or "").strip().title() on the city strings of the model
city_key(city) ==
    CASE city = " toronto " -> "Toronto"
      [] city = "TORONTO" -> "Toronto"
      [] OTHER -> city

\* A neighbourhood row: median is a mapping property type -> value, transit
\* and distance_km are raw values of the JSON file.
Row(name, m1, m2, tr, d) ==
    [name |-> name,
     median |-> [p \in _SUPPORTED_PROPS |->
                   IF p = "1bed" THEN m1 ELSE IF p = "2bed" THEN m2 ELSE Absent],
     transit |-> tr, distance_km |-> d]

RowPool ==
    { Row("Annex", Num(18), Num(24), Num(90), Num(3)),
      Row("Junction", Num(19), Absent, Num(70), Num(8)),
      Row("Scarborough", Num(16), Num(19), Num(55), Num(14)),
      Row("Yorkville", Num(30), Num(40), Num(95), Num(2)),
      Row("Weston", Num(16), Str, Num(70), Num(8)) }

RECURSIVE SeqsUpTo(_, _)
SeqsUpTo(S, n) ==
    IF n = 0 THEN {<<>>}
    ELSE LET shorter == SeqsUpTo(S, n - 1)
         IN  shorter \cup {Append(s, x) : s \in {q \in shorter : Len(q) = n - 1}, x \in S}

\* The JSON snapshots the process may be started on: one city record
\* ("Toronto") with its medians and an ordered list of neighbourhood rows;
\* readable = FALSE is a data file that cannot be opened or parsed.
CityMedians ==
    [p \in _SUPPORTED_PROPS |->
       IF p = "1bed" THEN Num(24) ELSE IF p = "2bed" THEN Num(30) ELSE Absent]

Datasets ==
    { [readable |-> r, neighbourhoods |-> ns] :
        r \in BOOLEAN, ns \in SeqsUpTo(RowPool, MaxRows) }


\* What urlopen(_DATA_URL) yields in live mode: "timeout", "http_error" (a
\* status other than 200), "unparsable" (a body json.loads rejects),
\* "not_a_mapping" (a body that is JSON but no object, such as []), or "ok"
\* with the rows of the remote snapshot.
Remote(outcome, ns) == [outcome |-> outcome, neighbourhoods |-> ns]
NoRemote == Remote("none", <<>>)

\* the fetch ends inside the try block with a parsed payload
RemoteParsed(live, remote) == live /\ remote.outcome \in {"ok", "not_a_mapping"}

\* _load_json: the memoized dataset if the cache holds one; in live mode the
\* parsed remote payload; else the local file.  ok = FALSE stands for a
\* lookup that raises: the file cannot be read, or the dataset is no mapping
\* and data.get fails.
\* a loader that goes back to the sources on every call
_load_json_Rereads(cache, file, live, remote) ==
    IF RemoteParsed(live, remote)
    THEN [ok |-> remote.outcome = "ok", neighbourhoods |-> remote.neighbourhoods]
    ELSE IF file.readable THEN [ok |-> TRUE, neighbourhoods |-> file.neighbourhoods]
    ELSE [ok |-> FALSE, neighbourhoods |-> <<>>]

_load_json(cache, file, live, remote) ==
    IF cache.loaded THEN [ok |-> cache.usable, neighbourhoods |-> cache.neighbourhoods]
    ELSE IF RemoteParsed(live, remote)
    THEN [ok |-> remote.outcome = "ok", neighbourhoods |-> remote.neighbourhoods]
    ELSE IF file.readable THEN [ok |-> TRUE, neighbourhoods |-> file.neighbourhoods]
    ELSE [ok |-> FALSE, neighbourhoods |-> <<>>]

\* _CACHE["dataset"] after a call of _load_json
CacheAfter(cache, file, live, remote) ==
    IF cache.loaded THEN cache
    ELSE IF RemoteParsed(live, remote)
    THEN [loaded |-> TRUE, usable |-> remote.outcome = "ok",
          neighbourhoods |-> remote.neighbourhoods]
    ELSE IF file.readable
    THEN [loaded |-> TRUE, usable |-> TRUE, neighbourhoods |-> file.neighbourhoods]
    ELSE cache

\* what a caller gets from a filled cache
CachedOf(cache) == [ok |-> cache.usable, neighbourhoods |-> cache.neighbourhoods]

\* the sources _load_json reads, in order: none when the dataset is cached,
\* else the URL in live mode and the local file unless the URL gave a payload
SourcesRead(cache, file, live, remote) ==
    IF cache.loaded THEN <<>>
    ELSE (IF live THEN <<"remote">> ELSE <<>>)
         \o (IF RemoteParsed(live, remote) THEN <<>> ELSE <<"local">>)

\* get_city_obj(city) is falsy for every city but the one of the snapshot
get_city_obj(data, city) == city_key(city) = "Toronto"

get_city_median(data, city, prop) ==
    IF ~get_city_obj(data, city) THEN None
    ELSE LET p == LowerProp(prop)
             med == IF p \in _SUPPORTED_PROPS THEN Get(CityMedians[p]) ELSE None
         IN  IF IsNum(med) THEN med ELSE None

list_neighbourhoods(data, city) ==
    IF ~get_city_obj(data, city) THEN <<>> ELSE data.neighbourhoods

\* a lookup that reads a non-numeric median entry as 0
get_neighbourhood_median_StrAsZero(row, prop) ==
    LET p == LowerProp(prop)
        med == IF p \in _SUPPORTED_PROPS THEN Get(row.median[p]) ELSE None
    IN  IF IsNum(med) THEN med ELSE IF med = Str THEN Num(0) ELSE None

get_neighbourhood_median(row, prop) ==
    LET p == LowerProp(prop)
        med == IF p \in _SUPPORTED_PROPS THEN Get(row.median[p]) ELSE None
    IN  IF IsNum(med) THEN med ELSE None

\* normalize_transit: float(x), clamped to [0, 100], rounded; None if not numeric
normalize_transit(x) == IF IsNum(x) THEN Num(_clamp(x.n, 0, 100)) ELSE None

get_neighbourhood_transit(row, default) ==
    LET norm == normalize_transit(GetOr(row.transit, Num(default)))
    IN  IF norm = None THEN Max2(0, Min2(100, default)) ELSE norm.n

(***************************************************************************)
(* Tool responses: {statusCode, body}.  The body is one record shape for   *)
(* all tools; the fields a tool does not set keep their NoBody value.      *)
(***************************************************************************)
NoBody ==
    [error |-> "", city |-> "", property_type |-> "", median |-> None,
     neighbourhoods |-> <<>>, recommendations |-> <<>>, reason |-> "",
     delta_pct |-> 0, rti |-> 0, verdict |-> ""]

_resp(status, body) == [statusCode |-> status, body |-> body]

InternalError == _resp(500, [NoBody EXCEPT !.error = "internal_error"])

RECURSIVE SelectRows(_, _)
\* the rows of ns, in order, that have a median for the property type
SelectRows(ns, prop) ==
    IF ns = <<>> THEN <<>>
    ELSE LET rest == SelectRows(Tail(ns), prop)
         IN  IF get_neighbourhood_median(Head(ns), prop) = None THEN rest
             ELSE <<Head(ns)>> \o rest

(***************************************************************************)
(* lambdas/get_rent_data.py                                                *)
(***************************************************************************)
\* ev: [city, property_type, include_neighbourhoods]
tool_rent(ev, data) ==
    IF ~data.ok THEN InternalError
    ELSE
    LET city == city_key(ev.city)
        prop == LowerProp(ev.property_type)
        city_median == get_city_median(data, city, prop)
        rows == SelectRows(list_neighbourhoods(data, city), prop)
    IN  IF ~get_city_obj(data, city)
        THEN _resp(404, [NoBody EXCEPT !.error = "city_not_found", !.city = city])
        ELSE IF city_median = None
        THEN _resp(400, [NoBody EXCEPT !.error = "unsupported_property_type",
                                       !.property_type = prop])
        ELSE _resp(200, [NoBody EXCEPT
                 !.city = city, !.property_type = prop, !.median = city_median,
                 !.neighbourhoods =
                    IF ev.include_neighbourhoods
                    THEN [i \in 1..Len(rows) |->
                            [name |-> rows[i].name,
                             median |-> get_neighbourhood_median(rows[i], prop).n,
                             transit |-> 0, distance_km |-> 0]]
                    ELSE <<>>])

(***************************************************************************)
(* lambdas/get_neighbourhood_stats.py                                      *)
(***************************************************************************)
\* ev: [city, property_type]
tool_stats(ev, data) ==
    IF ~data.ok THEN InternalError
    ELSE
    LET city == city_key(ev.city)
        prop == LowerProp(ev.property_type)
        rows == SelectRows(list_neighbourhoods(data, city), prop)
    IN  IF ~get_city_obj(data, city)
        THEN _resp(404, [NoBody EXCEPT !.error = "city_not_found", !.city = city])
        ELSE _resp(200, [NoBody EXCEPT
                 !.city = city, !.property_type = prop,
                 !.neighbourhoods =
                    [i \in 1..Len(rows) |->
                       [name |-> rows[i].name,
                        median |-> get_neighbourhood_median(rows[i], prop).n,
                        transit |-> get_neighbourhood_transit(rows[i], 0),
                        distance_km |-> _safe_float(Get(rows[i].distance_km), 0)]]])


(***************************************************************************)
(* lambdas/evaluate_rent_affordability.py                                  *)
(***************************************************************************)
\* target_ratio + _RATIO_TOL and target_ratio - _RATIO_TOL are sums of binary
\* doubles.  For a ratio of t hundredths (-10 <= t < 160) the IEEE-754 sum
\* t/100 + 0.02 is below the double (t+2)/100 for t in TolSumBelow and equal
\* to it or above it otherwise; the difference t/100 - 0.02 is above the
\* double (t-2)/100 for t in TolDiffAbove and equal to it or below otherwise.
TolSumBelow == {-5, 12, 15, 18, 21}
TolDiffAbove == {5, 14, 17, 20, 23, 26}

\* rti > target_ratio + 0.02 when rti is the double (t+2)/100 itself
TieAboveTarget(target_ratio) == target_ratio \in TolSumBelow
\* rti < target_ratio - 0.02 when rti is the double (t-2)/100 itself
TieBelowTarget(target_ratio) == target_ratio \in TolDiffAbove

\* delta_pct > 0.02 etc. on listing, city_median (money), rti = 12*listing/income.
\* Away from a boundary the doubles compare as the exact values do.  On the
\* market boundary delta_pct is the double 0.02 itself.  On a target boundary
\* rti is the double of the exact quotient (income_annual / 12 being exact
\* for the incomes that reach a boundary here) and the bound is the rounded sum.
_make_verdict(listing, city_median, income_annual, target_ratio) ==
    LET above_market == (listing - city_median) * 100 > 2 * city_median
        below_market == (listing - city_median) * 100 < -(2 * city_median)
        near_market == ~above_market /\ ~below_market
        over == 1200 * listing - (target_ratio + 2) * income_annual
        under == 1200 * listing - (target_ratio - 2) * income_annual
        above_target == over > 0 \/ (over = 0 /\ TieAboveTarget(target_ratio))
        below_target == under < 0 \/ (under = 0 /\ TieBelowTarget(target_ratio))
        near_target == ~above_target /\ ~below_target
    IN  IF above_market /\ above_target THEN "Above market and above target ratio"
        ELSE IF above_market /\ near_target THEN "Above market; near target ratio"
        ELSE IF near_market /\ above_target THEN "Near market; above target ratio"
        ELSE IF below_market /\ below_target THEN "Below market and below target ratio"
        ELSE IF below_market /\ near_target THEN "Below market; near target ratio"
        ELSE IF near_market /\ below_target THEN "Near market; below target ratio"
        ELSE "Near market and near target ratio"

\* a handler that also rejects a target_ratio outside (0, 1)
tool_afford_ValidatesRatio(ev) ==
    LET listing == _safe_float(Get(ev.listing_price), 0)
        city_median == _safe_float(Get(ev.city_median), 0)
        income_annual == _safe_float(Get(ev.income_annual), 0)
        target_ratio == _safe_float(Get(ev.target_ratio), 30)
    IN  IF listing <= 0 \/ city_median <= 0 \/ income_annual <= 0
           \/ target_ratio <= 0 \/ target_ratio >= 100
        THEN _resp(400, [NoBody EXCEPT !.error = "invalid_input"])
        ELSE _resp(200, [NoBody EXCEPT
                 !.delta_pct = RoundDiv((listing - city_median) * 10000, city_median),
                 !.rti = 100 * ((1200 * listing) \div income_annual)
                           + RoundDiv(100 * ((1200 * listing) % income_annual),
                                      income_annual),
                 !.verdict = _make_verdict(listing, city_median, income_annual,
                                           target_ratio)])

\* ev: [listing_price, city_median, income_annual, target_ratio], raw values.
\* delta_pct and rti are returned rounded to 4 decimals (units of 0.0001).
tool_afford(ev) ==
    LET listing == _safe_float(Get(ev.listing_price), 0)
        city_median == _safe_float(Get(ev.city_median), 0)
        income_annual == _safe_float(Get(ev.income_annual), 0)
        target_ratio == _safe_float(Get(ev.target_ratio), 30)
    IN  IF listing <= 0 \/ city_median <= 0 \/ income_annual <= 0
        THEN _resp(400, [NoBody EXCEPT !.error = "invalid_input"])
        ELSE _resp(200, [NoBody EXCEPT
                 !.delta_pct = RoundDiv((listing - city_median) * 10000, city_median),
                 !.rti = 100 * ((1200 * listing) \div income_annual)
                           + RoundDiv(100 * ((1200 * listing) % income_annual),
                                      income_annual),
                 !.verdict = _make_verdict(listing, city_median, income_annual,
                                           target_ratio)])

(***************************************************************************)
(* lambdas/suggest_neighbourhoods.py                                       *)
(***************************************************************************)
\* Preferences: a mapping with up to three keys; Absent marks a missing key.
Prefs(md, mt, tri) ==
    [max_distance_km |-> md, min_transit |-> mt, target_rent_to_income |-> tri]

NoPrefs == Prefs(Absent, Absent, Absent)

\* max_dist = max(0.0, _safe_float(prefs.get("max_distance_km"), 15.0))
MaxDistOf(prefs) == Max2(0, _safe_float(Get(prefs.max_distance_km), 15))

\* min_transit = int(_clamp(_safe_float(prefs.get("min_transit", 65)), 0, 100));
\* the preference is in halves, the result in whole transit points
MinTransitOf(prefs) ==
    _clamp(_safe_float(GetOr(prefs.min_transit, Num(130)), 0), 0, 200) \div 2

\* target_rti = _safe_float(prefs.get("target_rent_to_income"), 0.30)
TargetRtiOf(prefs) == _safe_float(Get(prefs.target_rent_to_income), 30)

\* _affordability_component(rti, target) as a fraction [num, den] in [0, 1];
\* rti = 1200*med/income in hundredths
_affordability_component(med, income, target) ==
    IF target <= 0 THEN [num |-> 0, den |-> 1]
    ELSE LET den == income * Max2(target, 1)
             over == Max2(0, 1200 * med - target * income)
         IN  [num |-> _clamp(den - over, 0, den), den |-> den]

\* _distance_component(distance_km, max_distance_km) as a fraction [num, den]
_distance_component(distance_km, max_distance_km) ==
    IF max_distance_km <= 0 THEN [num |-> 0, den |-> 1]
    ELSE [num |-> max_distance_km - Min2(distance_km, max_distance_km),
          den |-> max_distance_km]

\* round(_W_AFF*aff + _W_TRN*transit/100 + _W_DST*dist_comp, 3), with the
\* default weights 0.5, 0.3, 0.2, in thousandths
ScoreOf(aff, transit, dc) ==
    RoundDiv(500 * aff.num * dc.den
               + 3 * _clamp(transit, 0, 100) * aff.den * dc.den
               + 200 * dc.num * aff.den,
             aff.den * dc.den)

\* _why raises when int() or float() is applied to None or to a non-numeric
\* string: prefs["min_transit"], the row's raw transit, prefs["target_..."]
WhyRaises(row, prefs) ==
    \/ ~IsNum(GetOr(prefs.min_transit, Num(0)))
    \/ ~IsNum(GetOr(row.transit, Num(0)))
    \/ ~IsNum(GetOr(prefs.target_rent_to_income, Num(30)))

\* _why(nei, rent_diff, rti, prefs): the three parts of the sentence (read
\* only when WhyRaises is false).
\* rent_diff12 is 12 * rent_diff in CAD.
_why(row, rent_diff12, med, income, prefs) ==
    [cheaper |-> rent_diff12 < 0,
     amount |-> TruncDiv(IF rent_diff12 < 0 THEN -rent_diff12 ELSE rent_diff12, 12),
     meets_transit |->
        GetOr(row.transit, Num(0)).n
          >= TruncDiv(GetOr(prefs.min_transit, Num(0)).n, 2),
     at_or_below |->
        1200 * med <= GetOr(prefs.target_rent_to_income, Num(30)).n * income]

RECURSIVE InsertByScore_TiesReversed(_, _)
\* a sort that puts a row before the earlier rows of equal score
InsertByScore_TiesReversed(sorted, r) ==
    IF sorted = <<>> THEN <<r>>
    ELSE IF Head(sorted).score > r.score
         THEN <<Head(sorted)>> \o InsertByScore_TiesReversed(Tail(sorted), r)
         ELSE <<r>> \o sorted

RECURSIVE InsertByScore(_, _)
\* rows.sort(key=score, reverse=True) is stable: r goes after every row of
\* the sorted list whose score is >= its own
InsertByScore(sorted, r) ==
    IF sorted = <<>> THEN <<r>>
    ELSE IF Head(sorted).score >= r.score
         THEN <<Head(sorted)>> \o InsertByScore(Tail(sorted), r)
         ELSE <<r>> \o sorted

RECURSIVE SortByScore(_)
SortByScore(rows) ==
    IF rows = <<>> THEN <<>>
    ELSE InsertByScore(SortByScore(SubSeq(rows, 1, Len(rows) - 1)), rows[Len(rows)])

\* the hard filters of the loop: TRUE when the row is skipped
Rejected(row, prop, income, max_dist, min_transit, target_rti) ==
    LET med == get_neighbourhood_median(row, prop)
        transit == get_neighbourhood_transit(row, 0)
        dist == Max2(0, _safe_float(GetOr(row.distance_km, Num(0)), 0))
    IN  \/ med = None
        \/ dist > max_dist \/ transit < min_transit
        \/ income <= 0
        \/ 1200 * med.n > target_rti * income

RECURSIVE Survivors(_, _, _, _, _, _)
Survivors(ns, prop, income, max_dist, min_transit, target_rti) ==
    IF ns = <<>> THEN <<>>
    ELSE LET rest == Survivors(Tail(ns), prop, income, max_dist, min_transit, target_rti)
         IN  IF Rejected(Head(ns), prop, income, max_dist, min_transit, target_rti)
             THEN rest ELSE <<Head(ns)>> \o rest

\* ev: [city, property_type, income_annual, prefs, budget_cap, listing_price]
\* the rows the loop appends, in dataset order
ScoredRows(ev, data) ==
    LET city == city_key(ev.city)
        prop == LowerProp(ev.property_type)
        income == _safe_float(Get(ev.income_annual), 800)
        prefs == ev.prefs
        max_dist == MaxDistOf(prefs)
        min_transit == MinTransitOf(prefs)
        target_rti == TargetRtiOf(prefs)
        \* 12 * price_ref in CAD
        price_ref12 ==
            IF Get(ev.listing_price) # None
            THEN 1200 * _safe_float(ev.listing_price, 0)
            ELSE IF IsNum(Get(ev.budget_cap)) THEN 1200 * ev.budget_cap.n
            ELSE income * target_rti
        kept == Survivors(list_neighbourhoods(data, city), prop, income,
                          max_dist, min_transit, target_rti)
    IN  [i \in 1..Len(kept) |->
           LET row == kept[i]
               med == get_neighbourhood_median(row, prop).n
               transit == get_neighbourhood_transit(row, 0)
               dist == Max2(0, _safe_float(GetOr(row.distance_km, Num(0)), 0))
           IN  [name |-> row.name, median |-> med,
                rent_diff_vs_listing |-> TruncDiv(1200 * med - price_ref12, 12),
                transit |-> transit, distance_km |-> dist,
                score |-> ScoreOf(_affordability_component(med, income, target_rti),
                                  transit,
                                  _distance_component(dist, max_dist)),
                raised |-> WhyRaises(row, prefs),
                why |-> _why(row, 1200 * med - price_ref12, med, income, prefs)]]

\* a payload that never carries the reason
ReasonOf_Never(recs) == ""

\* payload["reason"] is set when recs is empty
ReasonOf(recs) == IF recs = <<>> THEN "no_neighbourhood_passed_filters" ELSE ""

tool_suggest(ev, data) ==
    IF ~data.ok THEN InternalError
    ELSE
    LET city == city_key(ev.city)
        prop == LowerProp(ev.property_type)
        scored == ScoredRows(ev, data)
        sorted == SortByScore(scored)
        recs == SubSeq(sorted, 1, Min2(3, Len(sorted)))
    IN  IF ~get_city_obj(data, city)
        THEN _resp(404, [NoBody EXCEPT !.error = "city_not_found", !.city = city])
        ELSE IF \E i \in 1..Len(scored) : scored[i].raised
        THEN InternalError
        ELSE _resp(200, [NoBody EXCEPT
                 !.city = city, !.property_type = prop,
                 !.recommendations = recs,
                 !.reason = ReasonOf(recs)])


(***************************************************************************)
(* policy.py: classify_intent.  A text is a sequence of characters; the    *)
(* keywords are matched as substrings of the lower-cased text.             *)
(***************************************************************************)
K_what_is_rti == <<"w", "h", "a", "t", " ", "i", "s", " ", "r", "t", "i">>
K_what_is_rent_to_income == <<"w", "h", "a", "t", " ", "i", "s", " ", "r", "e", "n", "t", "-", "t", "o", "-", "i", "n", "c", "o", "m", "e">>
K_explain_transit_score == <<"e", "x", "p", "l", "a", "i", "n", " ", "t", "r", "a", "n", "s", "i", "t", " ", "s", "c", "o", "r", "e">>
K_what_is_eps == <<"w", "h", "a", "t", " ", "i", "s", " ", "e", "p", "s">>
K_afford == <<"a", "f", "f", "o", "r", "d">>
K_rti == <<"r", "t", "i">>
K_rent_to_income == <<"r", "e", "n", "t", " ", "t", "o", " ", "i", "n", "c", "o", "m", "e">>
K_suggest == <<"s", "u", "g", "g", "e", "s", "t">>
K_recommend == <<"r", "e", "c", "o", "m", "m", "e", "n", "d">>
K_neighbourhood == <<"n", "e", "i", "g", "h", "b", "o", "u", "r", "h", "o", "o", "d">>
K_where_should_i_live == <<"w", "h", "e", "r", "e", " ", "s", "h", "o", "u", "l", "d", " ", "i", " ", "l", "i", "v", "e">>
K_median == <<"m", "e", "d", "i", "a", "n">>
K_rent_in == <<"r", "e", "n", "t", " ", "i", "n">>
K_city_median == <<"c", "i", "t", "y", " ", "m", "e", "d", "i", "a", "n">>
K_transit == <<"t", "r", "a", "n", "s", "i", "t">>

\* words a query is made of (joined by single spaces)
W_what_is_rti == <<"W", "h", "a", "t", " ", "i", "s", " ", "R", "T", "I">>
W_explain_transit_score == <<"e", "x", "p", "l", "a", "i", "n", " ", "t", "r", "a", "n", "s", "i", "t", " ", "s", "c", "o", "r", "e">>
W_affordable == <<"a", "f", "f", "o", "r", "d", "a", "b", "l", "e">>
W_suggest == <<"S", "u", "g", "g", "e", "s", "t">>
W_neighbourhood == <<"n", "e", "i", "g", "h", "b", "o", "u", "r", "h", "o", "o", "d">>
W_median == <<"m", "e", "d", "i", "a", "n">>
W_current_info == <<"c", "u", "r", "r", "e", "n", "t", " ", "i", "n", "f", "o">>
W_transit == <<"t", "r", "a", "n", "s", "i", "t">>
W_rent == <<"r", "e", "n", "t">>
W_in == <<"i", "n">>
W_hello == <<"h", "e", "l", "l", "o">>

Words ==
    { W_what_is_rti,
      W_explain_transit_score,
      W_affordable,
      W_suggest,
      W_neighbourhood,
      W_median,
      W_current_info,
      W_transit,
      W_rent,
      W_in,
      W_hello }

\* str.lower() on one character
LowerChar(c) ==
    CASE c = "W" -> "w" [] c = "R" -> "r" [] c = "T" -> "t" [] c = "I" -> "i"
      [] c = "S" -> "s" [] OTHER -> c

Lower(t) == [i \in 1..Len(t) |-> LowerChar(t[i])]

\* k in t
Contains(t, k) ==
    \E i \in 1..(Len(t) - Len(k) + 1) : SubSeq(t, i, i + Len(k) - 1) = k

AnyIn(t, ks) == \E k \in ks : Contains(t, k)

RECURSIVE Join(_)
\* " ".join(ws)
Join(ws) ==
    IF ws = <<>> THEN <<>>
    ELSE IF Len(ws) = 1 THEN ws[1]
    ELSE ws[1] \o <<" ">> \o Join(Tail(ws))

ExplainKeys ==
    {K_what_is_rti, K_what_is_rent_to_income, K_explain_transit_score, K_what_is_eps}
AffordKeys == {K_afford, K_rti, K_rent_to_income}
SuggestKeys == {K_suggest, K_recommend, K_neighbourhood, K_where_should_i_live}
CityRentKeys == {K_median, K_rent_in, K_city_median}
TransitKeys == {K_transit}

\* a classifier that tests the suggest keywords before the affordability ones
classify_intent_SuggestFirst(user_text) ==
    LET t == Lower(user_text)
    IN  IF AnyIn(t, ExplainKeys) THEN "explain"
        ELSE IF AnyIn(t, SuggestKeys) THEN "suggest"
        ELSE IF AnyIn(t, AffordKeys) THEN "affordability"
        ELSE IF AnyIn(t, CityRentKeys) THEN "city_rent"
        ELSE IF AnyIn(t, TransitKeys) THEN "neigh_stats"
        ELSE "city_rent"

classify_intent(user_text) ==
    LET t == Lower(user_text)
    IN  IF AnyIn(t, ExplainKeys) THEN "explain"
        ELSE IF AnyIn(t, AffordKeys) THEN "affordability"
        ELSE IF AnyIn(t, SuggestKeys) THEN "suggest"
        ELSE IF AnyIn(t, CityRentKeys) THEN "city_rent"
        ELSE IF AnyIn(t, TransitKeys) THEN "neigh_stats"
        ELSE "city_rent"

(***************************************************************************)
(* policy.py: decide_and_act                                               *)
(***************************************************************************)
NoCity == "<absent>"
NoProp == "<absent>"

\* fill_defaults: property_type defaults to SAFE_DEFAULTS["property_type"]
fill_defaults(a) ==
    IF a.property_type = NoProp THEN [a EXCEPT !.property_type = "1bed"] ELSE a

\* a city check that forgets the suggest intent
maybe_need_city_NoSuggest(it) == it \in {"city_rent", "neigh_stats"}

maybe_need_city(it) == it \in {"city_rent", "neigh_stats", "suggest"}

\* not args.get("city")
CityMissing(a) == a.city \in {NoCity, ""}

\* (property_type or "1bed").lower() is applied inside the tools
PropOr1bed(p) == IF p = "" THEN "1bed" ELSE p

\* An action record; keys is the set of keys the record carries.
NoArgs == [city |-> "", property_type |-> ""]
ActionRec(tool, hasArgs, a, status) ==
    [keys |-> IF hasArgs THEN {"tool", "args", "status"} ELSE {"tool", "status"},
     tool |-> tool,
     args |-> IF hasArgs THEN [city |-> a.city, property_type |-> a.property_type]
              ELSE NoArgs,
     status |-> status]

\* verify stubs and answers of the envelope; keys lists the keys present
Verify(ok, notes, body) ==
    [keys |-> IF notes = "" THEN {"ok"} ELSE {"ok", "notes"},
     ok |-> ok, notes |-> notes, body |-> body, reasons |-> <<>>]

NoAnswer ==
    [keys |-> {}, message |-> "", error |-> "", details |-> NoBody, summary |-> "",
     data |-> NoBody, recommendations |-> <<>>]

\* _resp(plan, actions, verify, answer) of policy.py
Envelope(plan, actions, verify, answer) ==
    [plan |-> plan, actions |-> actions, verify |-> verify, answer |-> answer]

ErrorAnswer(code, body) ==
    [NoAnswer EXCEPT !.keys = {"error", "details"}, !.error = code, !.details = body]

\* a failure envelope whose verify stub still says ok
Failed_OkVerify(plan, actions, code, body) ==
    Envelope(plan, actions, Verify(TRUE, "body", body), ErrorAnswer(code, body))

\* a failure envelope that drops the failing body
Failed_NoDetails(plan, actions, code, body) ==
    Envelope(plan, actions, Verify(FALSE, "body", body), ErrorAnswer(code, NoBody))

\* the envelope of a failed tool call
Failed(plan, actions, code, body) ==
    Envelope(plan, actions, Verify(FALSE, "body", body), ErrorAnswer(code, body))


(***************************************************************************)
(* agent_bedrock.py: what the language model may answer.                   *)
(*                                                                         *)
(* An action item of a model-produced actions list is a mapping with a     *)
(* tool key, a mapping without one, or not a mapping (a string).           *)
(***************************************************************************)
ToolItem(tool) == [kind |-> "dict", has_tool |-> TRUE, tool |-> tool]
NoToolItem == [kind |-> "dict", has_tool |-> FALSE, tool |-> ""]
StrItem == [kind |-> "str", has_tool |-> FALSE, tool |-> ""]

ActionItems ==
    { ToolItem("suggest_neighbourhoods"), ToolItem("get_rent_data"), NoToolItem, StrItem }

\* the "actions" value of a JSON object: a list, null, another value, or no key
ListOf(items) == [kind |-> "list", items |-> items]
NullActions == [kind |-> "null", items |-> <<>>]
OtherActions == [kind |-> "other", items |-> <<>>]
AbsentActions == [kind |-> "absent", items |-> <<>>]

\* the "prefs" value of an answer: a mapping, another value, or no key
PrefsDict(p) == [kind |-> "dict", p |-> p]
PrefsStr == [kind |-> "str", p |-> NoPrefs]
PrefsAbsent == [kind |-> "absent", p |-> NoPrefs]
PrefsNone == [kind |-> "none", p |-> NoPrefs]

\* the "recommendations" value of an answer
RecsList(items) == [kind |-> "list", items |-> items]
RecsAbsent == [kind |-> "absent", items |-> <<>>]

\* an answer: a mapping (of which the Verifier reads five keys) or a string
AnswerDict(note, recs, lp, inc, tgt, prefs) ==
    [kind |-> "dict", note |-> note, recommendations |-> recs, listing_price |-> lp,
     income_annual |-> inc, target_ratio |-> tgt, prefs |-> prefs]

PlainAnswer(note) == AnswerDict(note, RecsAbsent, Absent, Absent, Absent, PrefsAbsent)

AnswerStr == [PlainAnswer("") EXCEPT !.kind = "str"]

\* a verify mapping; keys is the set of keys present
EmptyVerify == [Verify(FALSE, "", NoBody) EXCEPT !.keys = {}]
OkVerify == Verify(TRUE, "", NoBody)
NotOkVerify == Verify(FALSE, "", NoBody)

(***************************************************************************)
(* agent_bedrock.py: _normalize_prefs                                      *)
(***************************************************************************)
\* a merge in which a user null leaves the default in place
MergePref_NullKeepsDefault(dflt, user) ==
    LET base == IF dflt.t \in {"absent", "none"} THEN Absent ELSE dflt
    IN  IF user.t \in {"absent", "none"} THEN base ELSE user

\* one key: the default (unless null), overlaid by the user's value; a user
\* null deletes a key the defaults supplied, and is stored otherwise
MergePref(dflt, user) ==
    LET base == IF dflt.t \in {"absent", "none"} THEN Absent ELSE dflt
    IN  IF user.t = "absent" THEN base
        ELSE IF user.t = "none" /\ base.t # "absent" THEN Absent
        ELSE user

_normalize_prefs(defaults, prefs_in) ==
    Prefs(MergePref(defaults.max_distance_km, prefs_in.max_distance_km),
          MergePref(defaults.min_transit, prefs_in.min_transit),
          MergePref(defaults.target_rent_to_income, prefs_in.target_rent_to_income))

\* a merge that starts from _DEFAULT_PREFS itself instead of a fresh mapping
DefaultsAfter_Aliased(defaults, prefs_in) == _normalize_prefs(defaults, prefs_in)

\* _DEFAULT_PREFS after _normalize_prefs: the merge fills a new mapping and
\* only reads the defaults
DefaultsAfter(defaults, prefs_in) == defaults

\* _DEFAULT_PREFS when RP_PREFS_DEFAULT is not set
StandardPrefs == Prefs(Num(12), Num(120), Num(30))

(***************************************************************************)
(* agent_bedrock.py: _auto_args_from_text (city only: no word of the model *)
(* matches a property-type pattern)                                        *)
(***************************************************************************)
K_toronto == <<"t", "o", "r", "o", "n", "t", "o">>
K_montreal == <<"m", "o", "n", "t", "r", "e", "a", "l">>
W_in_Toronto == <<"i", "n", " ", "T", "o", "r", "o", "n", "t", "o">>
W_in_Montreal == <<"i", "n", " ", "M", "o", "n", "t", "r", "e", "a", "l">>

LowerText(t) ==
    [i \in 1..Len(t) |-> IF t[i] = "M" THEN "m" ELSE LowerChar(t[i])]

_auto_args_from_text(user_text, a) ==
    IF a.city # NoCity THEN a
    ELSE IF Contains(LowerText(user_text), K_toronto) THEN [a EXCEPT !.city = "Toronto"]
    ELSE IF Contains(LowerText(user_text), K_montreal) THEN [a EXCEPT !.city = "Montreal"]
    ELSE a

(***************************************************************************)
(* agent_bedrock.py: _converse_plan, _converse_finalize                    *)
(***************************************************************************)
\* the planner's text: kind is "raise" (the Converse call fails),
\* "unparsed" (no JSON object in it) or "parsed"
PlanOut(kind, has_plan, actions) ==
    [kind |-> kind, has_plan |-> has_plan, actions |-> actions]

_converse_plan(o) ==
    IF o.kind = "unparsed" THEN [plan |-> "(unparsed)", actions |-> <<>>]
    ELSE [plan |-> IF o.has_plan THEN "model_plan" ELSE "No plan returned",
          actions |-> IF o.actions.kind = "list" THEN o.actions.items ELSE <<>>]

\* the finalizer's text, likewise
FinalOut(kind, has_plan, actions, verify, answer) ==
    [kind |-> kind, has_plan |-> has_plan, actions |-> actions, verify |-> verify,
     answer |-> answer]

\* a finalizer wrapper whose fallback envelope leaves the tool result out
_converse_finalize_FallbackDropsResult(o, plan, actions, tr) ==
    IF o.kind = "unparsed"
    THEN [plan |-> plan, actions |-> ListOf(actions),
          verify |-> Verify(TRUE, "Finalize parse fallback", NoBody),
          answer |-> PlainAnswer("Summary based on tools"),
          tool_result |-> Envelope("", <<>>, Verify(TRUE, "", NoBody), NoAnswer)]
    ELSE [plan |-> IF o.has_plan THEN "final_plan" ELSE plan,
          actions |-> IF o.actions.kind = "absent" THEN ListOf(actions) ELSE o.actions,
          verify |-> o.verify,
          answer |-> o.answer,
          tool_result |-> tr]

_converse_finalize(o, plan, actions, tr) ==
    IF o.kind = "unparsed"
    THEN [plan |-> plan, actions |-> ListOf(actions),
          verify |-> Verify(TRUE, "Finalize parse fallback", NoBody),
          answer |-> PlainAnswer("Summary based on tools"),
          tool_result |-> tr]
    ELSE [plan |-> IF o.has_plan THEN "final_plan" ELSE plan,
          actions |-> IF o.actions.kind = "absent" THEN ListOf(actions) ELSE o.actions,
          verify |-> o.verify,
          answer |-> o.answer,
          tool_result |-> tr]

\* run_agent: recommendations of the tool result are copied into an answer
\* mapping that has none
Promote(pack) ==
    LET tr_recs == pack.tool_result.answer.recommendations
    IN  IF Len(tr_recs) > 0 /\ pack.answer.kind = "dict"
           /\ Len(pack.answer.recommendations.items) = 0
        THEN [pack EXCEPT !.answer.recommendations = RecsList(tr_recs)]
        ELSE pack

(***************************************************************************)
(* agent_bedrock.py: _local_verify                                         *)
(***************************************************************************)
\* first_tool = actions[0]["tool"] raises for an item that is no mapping
\* (TypeError) or has no tool key (KeyError)
FirstToolRaises(actions) ==
    /\ actions.kind = "list"
    /\ Len(actions.items) > 0
    /\ (actions.items[1].kind # "dict" \/ ~actions.items[1].has_tool)

FirstTool(actions) ==
    IF actions.kind = "list" /\ Len(actions.items) > 0
    THEN actions.items[1].tool ELSE "<none>"

\* the prefs the Verifier finds: the tool result has no "args", so they are
\* the answer's "prefs" (None when the answer is no mapping)
VerifierPrefs(result) ==
    IF result.answer.kind # "dict" THEN PrefsNone
    ELSE IF result.answer.prefs.kind = "absent" THEN PrefsDict(NoPrefs)
    ELSE result.answer.prefs

\* prefs.get raises on a value that is no mapping; md <= 12, mt >= 60 and
\* tri <= 0.30 raise on a string
HintsRaise(prefs) ==
    \/ prefs.kind # "dict"
    \/ prefs.p.max_distance_km.t = "str"
    \/ prefs.p.min_transit.t = "str"
    \/ prefs.p.target_rent_to_income.t = "str"

Hint(pref, from, to) == [pref |-> pref, from |-> from, to |-> to]

\* the hints, in order: distance +3, min_transit -5 (not below 0), target
\* ratio +0.03 (not above 0.40)
Hints(p) ==
    (IF IsNum(p.max_distance_km) /\ p.max_distance_km.n <= 12
     THEN <<Hint("max_distance_km", p.max_distance_km.n, p.max_distance_km.n + 3)>>
     ELSE <<>>)
    \o
    (IF IsNum(p.min_transit) /\ p.min_transit.n >= 120
     THEN <<Hint("min_transit", p.min_transit.n, Max2(p.min_transit.n - 10, 0))>>
     ELSE <<>>)
    \o
    (IF IsNum(p.target_rent_to_income) /\ p.target_rent_to_income.n <= 30
     THEN <<Hint("target_rent_to_income", p.target_rent_to_income.n,
                 Min2(p.target_rent_to_income.n + 3, 40))>>
     ELSE <<>>)

NoMatch(hints) ==
    [keys |-> {"ok", "reasons"}, ok |-> FALSE, notes |-> "", body |-> NoBody,
     reasons |-> <<"No neighborhoods matched">> \o hints]

\* recs of the answer, else of the raw tool result
VerifierRecs(result) ==
    LET own == IF result.answer.kind = "dict"
               THEN result.answer.recommendations.items ELSE <<>>
    IN  IF Len(own) > 0 THEN own ELSE result.tool_result.answer.recommendations

\* a budget rule with a 50% tolerance band in place of the 25% one
BudgetMismatch_WideTolerance(lp, inc, tgt) ==
    0 < tgt /\ tgt < 100 /\ lp * 800 > inc * tgt

\* 0 < tgt < 1.0 and lp > (inc / 12.0) * (tgt * 1.25)
BudgetMismatch(lp, inc, tgt) ==
    0 < tgt /\ tgt < 100 /\ lp * 4800 > inc * tgt * 5

\* the affordability sanity check; float() of a string raises inside the try
BudgetFails(ans) ==
    /\ ans.kind = "dict"
    /\ IsNum(ans.listing_price) /\ IsNum(ans.income_annual) /\ IsNum(ans.target_ratio)
    /\ BudgetMismatch(ans.listing_price.n, ans.income_annual.n, ans.target_ratio.n)

Returned(v) == [raised |-> FALSE, verify |-> v]
Raised == [raised |-> TRUE, verify |-> EmptyVerify]

\* v or {"ok": True}
OrOk(v) == IF v.keys = {} THEN OkVerify ELSE v

_local_verify(result, RP_VERIFY_STRICT, RP_VERIFY_HINTS) ==
    IF ~RP_VERIFY_STRICT THEN Returned(OrOk(result.verify))
    ELSE IF FirstToolRaises(result.actions) THEN Raised
    ELSE IF FirstTool(result.actions) = "suggest_neighbourhoods"
            /\ Len(VerifierRecs(result)) = 0
    THEN IF RP_VERIFY_HINTS
         THEN IF HintsRaise(VerifierPrefs(result)) THEN Raised
              ELSE LET hints == Hints(VerifierPrefs(result).p)
                   IN  Returned(NoMatch(SubSeq(hints, 1, Min2(2, Len(hints)))))
         ELSE Returned(NoMatch(<<>>))
    ELSE IF BudgetFails(result.answer)
    THEN Returned([keys |-> {"ok", "notes"}, ok |-> FALSE,
                   notes |-> "Listing far above target ratio", body |-> NoBody,
                   reasons |-> <<>>])
    ELSE Returned(OrOk(result.verify))

(***************************************************************************)
(* ledger.py.  A write has two sinks, the local JSONL file and the S3      *)
(* mirror; local_raises and s3_raises say whether the sink, if tried,      *)
(* raises (open or write fails, put_object fails).  The result carries the *)
(* value returned (out) and which sinks received the record.               *)
(***************************************************************************)
\* write_entry_s3: {"ok", "s3_uri"} and "s3_error" on failure
write_entry_s3(enable_s3, s3_raises) ==
    IF ~enable_s3 THEN [ok |-> TRUE, s3_uri |-> FALSE, s3_error |-> "", put |-> FALSE]
    ELSE IF s3_raises
    THEN [ok |-> FALSE, s3_uri |-> FALSE, s3_error |-> "put_object failed", put |-> FALSE]
    ELSE [ok |-> TRUE, s3_uri |-> TRUE, s3_error |-> "", put |-> TRUE]

\* the local append of both writers
LocalAppend(enable_local, local_raises) ==
    IF ~enable_local THEN [ok |-> TRUE, local_path |-> FALSE, local_error |-> ""]
    ELSE IF local_raises
    THEN [ok |-> FALSE, local_path |-> FALSE, local_error |-> "open failed"]
    ELSE [ok |-> TRUE, local_path |-> TRUE, local_error |-> ""]

NoStepOut ==
    [local |-> LocalAppend(FALSE, FALSE),
     s3 |-> [ok |-> TRUE, s3_uri |-> FALSE, s3_error |-> ""]]
NoEntryOut ==
    [keys |-> {}, ok |-> TRUE, local_path |-> FALSE, local_error |-> "",
     s3_uri |-> FALSE, s3_error |-> ""]

\* a writer that gives up on the mirror once the local append has failed
write_entry_StopsAfterLocalError(enable_local, enable_s3, local_raises, s3_raises) ==
    LET loc == LocalAppend(enable_local, local_raises)
        s3_out == write_entry_s3(enable_s3 /\ loc.ok, s3_raises)
    IN  [local |-> loc.local_path, s3 |-> s3_out.put, step |-> NoStepOut,
         entry |-> [keys |-> {"ok", "local_path"}
                             \cup (IF loc.ok THEN {} ELSE {"local_error"})
                             \cup (IF s3_out.ok /\ loc.ok THEN {"s3_uri"} ELSE {})
                             \cup (IF ~s3_out.ok THEN {"s3_error"} ELSE {}),
                    ok |-> loc.ok, local_path |-> loc.local_path,
                    local_error |-> loc.local_error,
                    s3_uri |-> s3_out.s3_uri, s3_error |-> s3_out.s3_error]]

\* write_entry: {"ok", "local_path"}, "local_error" when the append failed,
\* "s3_uri" when the mirror is off or took the record, else "s3_error"
write_entry(enable_local, enable_s3, local_raises, s3_raises) ==
    LET loc == LocalAppend(enable_local, local_raises)
        s3_out == write_entry_s3(enable_s3, s3_raises)
    IN  [local |-> loc.local_path, s3 |-> s3_out.put, step |-> NoStepOut,
         entry |-> [keys |-> {"ok", "local_path"}
                             \cup (IF loc.ok THEN {} ELSE {"local_error"})
                             \cup (IF s3_out.ok THEN {"s3_uri"} ELSE {})
                             \cup (IF ~s3_out.ok /\ s3_out.s3_error # ""
                                   THEN {"s3_error"} ELSE {}),
                    ok |-> loc.ok, local_path |-> loc.local_path,
                    local_error |-> loc.local_error,
                    s3_uri |-> s3_out.s3_uri, s3_error |-> s3_out.s3_error]]

\* write_step: {"local": {...}, "s3": {...}}
write_step(enable_local, enable_s3, local_raises, s3_raises) ==
    LET loc == LocalAppend(enable_local, local_raises)
        s3_out == write_entry_s3(enable_s3, s3_raises)
    IN  [local |-> loc.local_path, s3 |-> s3_out.put, entry |-> NoEntryOut,
         step |-> [local |-> loc,
                   s3 |-> [ok |-> s3_out.ok, s3_uri |-> s3_out.s3_uri,
                           s3_error |-> s3_out.s3_error]]]

(***************************************************************************)
(* State.                                                                  *)
(*   file, cache   the JSON snapshot on disk and _CACHE of the provider    *)
(*   pc            where the request is: "idle", inside decide_and_act     *)
(*                 ("dispatch", "afford_eval", "returned") or inside       *)
(*                 run_agent ("planning", "finalized", "done", "raised")   *)
(*   caller        "direct" (decide_and_act called by itself) or "agent"   *)
(*   text, args    the request: the clean query and its arguments          *)
(*   intent, act, city_median   locals of decide_and_act                    *)
(*   calls         the tool invocations made for the request, in order     *)
(*   tool_result   the envelope decide_and_act returned                    *)
(*   strict, hints, default_prefs   RP_VERIFY_STRICT, RP_VERIFY_HINTS and  *)
(*                 _DEFAULT_PREFS, read from the environment at start      *)
(*   no_ledger     run_agent's no_ledger argument                          *)
(*   live_mode     LIVE_MODE is on and FTA_DATA_URL is set                 *)
(*   remote        what a fetch of FTA_DATA_URL yields                     *)
(*   inline_args   the arguments as the caller gave them, before run_agent *)
(*                 enriches them                                           *)
(*   plan_pack, final_pack   locals of run_agent                           *)
(*   final_text    the text the finalizer model returned                   *)
(*   raised_in     where an exception left run_agent ("" if none)          *)
(*   ledger        the records appended to the local ledger file for this  *)
(*                 request, by stage                                       *)
(*   reads         the data sources the latest dataset lookup read         *)
(*   sinks         _ENABLE_LOCAL and _ENABLE_S3 of the ledger              *)
(*   mirror        the records put to the S3 mirror of the ledger          *)
(*   log_out       what the write_step / write_entry calls made on their   *)
(*                 own returned, in order                                  *)
(*   loaders       the callers that are inside _load_json concurrently     *)
(***************************************************************************)
VARIABLES file, cache, reads, strict, hints, default_prefs, live_mode, remote,
          sinks, pc, caller, text, args, inline_args, no_ledger, intent, act,
          city_median, calls, tool_result, plan_pack, final_pack, raised_in,
          final_text, ledger, mirror, log_out, loaders

dataVars == <<file, cache, reads>>
cfgVars == <<strict, hints, default_prefs, live_mode, remote, sinks>>
unitVars == <<mirror, log_out, loaders>>
reqVars == <<caller, text, args, inline_args, no_ledger>>
agentVars == <<plan_pack, final_pack, final_text, raised_in, ledger>>
polVars == <<intent, act, city_median, calls, tool_result>>

NoCache == [loaded |-> FALSE, usable |-> TRUE, neighbourhoods |-> <<>>]

\* LEDGER_LOCAL_ENABLE defaults to 1, LEDGER_S3_BUCKET to unset
DefaultSinks == [local |-> TRUE, s3 |-> FALSE]

\* a caller of _load_json: where it is and the dataset it holds
Loader(at, data) == [at |-> at, data |-> data]
NoData == [ok |-> FALSE, neighbourhoods |-> <<>>]
NoLoaders == [t \in {1, 2} |-> Loader("out", NoData)]
NoEnvelope == Envelope("", <<>>, Verify(TRUE, "", NoBody), NoAnswer)

Args(city, prop, cm, lp, inc, tr, prefs) ==
    [city |-> city, property_type |-> prop, city_median |-> cm,
     listing_price |-> lp, income_annual |-> inc, target_ratio |-> tr,
     prefs |-> prefs, budget_cap |-> Absent]

NoArgsYet == Args(NoCity, NoProp, Absent, Absent, Absent, Absent, NoPrefs)

\* one tool invocation: the tool, its event, and what it returned
CallRec(tool, ev, resp) ==
    [tool |-> tool, city |-> ev.city, property_type |-> ev.property_type,
     status |-> resp.statusCode, body |-> resp.body]

RentEvent(a) ==
    [city |-> a.city, property_type |-> PropOr1bed(a.property_type),
     include_neighbourhoods |-> FALSE]

StatsEvent(a) == [city |-> a.city, property_type |-> PropOr1bed(a.property_type)]

AffordEvent(a, cm) ==
    [city |-> "", property_type |-> "",
     listing_price |-> a.listing_price, city_median |-> cm,
     income_annual |-> a.income_annual,
     target_ratio |-> GetOr(a.target_ratio, Num(30))]

SuggestEvent(a) ==
    [city |-> a.city, property_type |-> PropOr1bed(a.property_type),
     income_annual |-> GetOr(a.income_annual, Num(800)),
     prefs |-> a.prefs, budget_cap |-> Get(a.budget_cap),
     listing_price |-> Get(a.listing_price)]

\* the early return of decide_and_act: the intent needs a city, none is given
NeedsCityAsk(it, a) == maybe_need_city(it) /\ CityMissing(a)

\* decide_and_act returns env; the tool calls it made are appended to calls
Return(env) ==
    /\ tool_result' = env
    /\ pc' = "returned"

\* intent needs a city and none was given: ask, call nothing
AskCity ==
    /\ pc = "dispatch"
    /\ LET a == fill_defaults(args)
       IN  /\ NeedsCityAsk(intent, a)
           /\ Return(Envelope("ask_city_" \o intent, <<>>,
                              Verify(FALSE, "missing_city", NoBody),
                              [NoAnswer EXCEPT !.keys = {"message"},
                                               !.message = "which_city"]))
    /\ UNCHANGED <<cfgVars, unitVars, agentVars, dataVars, reqVars, intent, act, city_median, calls>>

Explain ==
    /\ pc = "dispatch"
    /\ intent = "explain"
    /\ Return(Envelope("no_tool", <<>>, Verify(TRUE, "think_only", NoBody),
                       [NoAnswer EXCEPT !.keys = {"message"}, !.message = "rti_definition"]))
    /\ UNCHANGED <<cfgVars, unitVars, agentVars, dataVars, reqVars, intent, act, city_median, calls>>

CityRent ==
    /\ pc = "dispatch"
    /\ intent = "city_rent"
    /\ LET a == fill_defaults(args)
           ev == RentEvent(a)
           r == tool_rent(ev, _load_json(cache, file, live_mode, remote))
           actions == <<ActionRec("get_rent_data", TRUE, a, r.statusCode)>>
           plan == "fetch_city_median"
       IN  /\ ~NeedsCityAsk(intent, a)
           /\ calls' = Append(calls, CallRec("get_rent_data", ev, r))
           /\ cache' = CacheAfter(cache, file, live_mode, remote)
           /\ reads' = SourcesRead(cache, file, live_mode, remote)
           /\ IF r.statusCode # 200
              THEN Return(Failed(plan, actions, "tool_failed", r.body))
              ELSE Return(Envelope(plan, actions, Verify(TRUE, "", NoBody),
                          [NoAnswer EXCEPT !.keys = {"summary", "data"},
                                           !.summary = "city_median", !.data = r.body]))
    /\ UNCHANGED <<cfgVars, unitVars, agentVars, file, reqVars, intent, act, city_median>>

NeighStats ==
    /\ pc = "dispatch"
    /\ intent = "neigh_stats"
    /\ LET a == fill_defaults(args)
           ev == StatsEvent(a)
           r == tool_stats(ev, _load_json(cache, file, live_mode, remote))
           actions == <<ActionRec("get_neighbourhood_stats", TRUE, a, r.statusCode)>>
           plan == "fetch_neighbourhood_stats"
       IN  /\ ~NeedsCityAsk(intent, a)
           /\ calls' = Append(calls, CallRec("get_neighbourhood_stats", ev, r))
           /\ cache' = CacheAfter(cache, file, live_mode, remote)
           /\ reads' = SourcesRead(cache, file, live_mode, remote)
           /\ IF r.statusCode # 200
              THEN Return(Failed(plan, actions, "tool_failed", r.body))
              ELSE Return(Envelope(plan, actions, Verify(TRUE, "", NoBody),
                          [NoAnswer EXCEPT !.keys = {"summary", "data"},
                                           !.summary = "found_neighbourhoods",
                                           !.data = r.body]))
    /\ UNCHANGED <<cfgVars, unitVars, agentVars, file, reqVars, intent, act, city_median>>

AffordPlan == "city_median_then_evaluate"

\* affordability, first half: city_median from the arguments, or looked up
\* with get_rent_data when it is missing and a city is given
AffordLookup ==
    /\ pc = "dispatch"
    /\ intent = "affordability"
    /\ LET a == fill_defaults(args)
           ev == RentEvent(a)
           r == tool_rent(ev, _load_json(cache, file, live_mode, remote))
           rec == ActionRec("get_rent_data", FALSE, a, r.statusCode)
       IN  IF ~Truthy(a.city_median) /\ ~CityMissing(a)
           THEN /\ calls' = Append(calls, CallRec("get_rent_data", ev, r))
                /\ cache' = CacheAfter(cache, file, live_mode, remote)
                /\ reads' = SourcesRead(cache, file, live_mode, remote)
                /\ act' = Append(act, rec)
                /\ IF r.statusCode # 200
                   THEN /\ Return(Failed(AffordPlan, <<rec>>,
                                         "failed_to_get_city_median", r.body))
                        /\ UNCHANGED city_median
                   ELSE /\ city_median' = r.body.median
                        /\ pc' = "afford_eval"
                        /\ UNCHANGED tool_result
           ELSE /\ city_median' = Get(a.city_median)
                /\ pc' = "afford_eval"
                /\ UNCHANGED <<cache, reads, act, calls, tool_result>>
    /\ UNCHANGED <<cfgVars, unitVars, agentVars, file, reqVars, intent>>

\* affordability, second half: the missing-inputs check and the calculator
AffordEvaluate ==
    /\ pc = "afford_eval"
    /\ LET a == fill_defaults(args)
           ev == AffordEvent(a, city_median)
           r == tool_afford(ev)
           rec == ActionRec("evaluate_rent_affordability", FALSE, a, r.statusCode)
       IN  IF ~(Truthy(a.listing_price) /\ Truthy(city_median) /\ Truthy(a.income_annual))
           THEN /\ Return(Envelope(AffordPlan, act, Verify(FALSE, "missing inputs", NoBody),
                                   [NoAnswer EXCEPT !.keys = {"message"},
                                                    !.message = "need_inputs"]))
                /\ UNCHANGED <<act, calls>>
           ELSE /\ calls' = Append(calls, CallRec("evaluate_rent_affordability", ev, r))
                /\ act' = Append(act, rec)
                /\ IF r.statusCode # 200
                   THEN Return(Failed(AffordPlan, act', "afford_failed", r.body))
                   ELSE Return(Envelope(AffordPlan, act', Verify(TRUE, "", NoBody),
                               [NoAnswer EXCEPT !.keys = {"summary", "metrics"},
                                                !.summary = r.body.verdict,
                                                !.data = r.body]))
    /\ UNCHANGED <<cfgVars, unitVars, agentVars, dataVars, reqVars, intent, city_median>>

Suggest ==
    /\ pc = "dispatch"
    /\ intent = "suggest"
    /\ LET a == fill_defaults(args)
           ev == SuggestEvent(a)
           r == tool_suggest(ev, _load_json(cache, file, live_mode, remote))
           actions == <<ActionRec("suggest_neighbourhoods", FALSE, a, r.statusCode)>>
           plan == "call_suggest"
       IN  /\ ~NeedsCityAsk(intent, a)
           /\ calls' = Append(calls, CallRec("suggest_neighbourhoods", ev, r))
           /\ cache' = CacheAfter(cache, file, live_mode, remote)
           /\ reads' = SourcesRead(cache, file, live_mode, remote)
           /\ IF r.statusCode # 200
              THEN Return(Failed(plan, actions, "suggest_failed", r.body))
              ELSE Return(Envelope(plan, actions, Verify(TRUE, "", NoBody),
                          [NoAnswer EXCEPT !.keys = {"summary", "recommendations", "meta"},
                                           !.summary = "top_n",
                                           !.recommendations = r.body.recommendations]))
    /\ UNCHANGED <<cfgVars, unitVars, agentVars, file, reqVars, intent, act, city_median>>

PolicyStep ==
    \/ AskCity \/ Explain \/ CityRent \/ NeighStats
    \/ AffordLookup \/ AffordEvaluate \/ Suggest

(***************************************************************************)
(* decide_and_act called by itself, on any query and arguments.            *)
(***************************************************************************)
PolicyTexts ==
    { <<>>, W_what_is_rti, W_affordable, W_suggest, W_median, W_transit, W_hello }

PolicyArgs ==
    { Args(c, p, cm, lp, inc, tr, prefs) :
        c \in {NoCity, "", "Toronto", "Atlantis"},
        p \in {NoProp, "2Bed", "loft"},
        cm \in {Absent, Num(24)},
        lp \in {Absent, Num(22), Str},
        inc \in {Absent, Num(800)},
        tr \in {Absent},
        prefs \in {NoPrefs, Prefs(Num(2), Num(120), Num(30)), Prefs(Absent, None, Absent)} }

\* every query of up to MaxWords words
Texts == { Join(ws) : ws \in SeqsUpTo(Words, MaxWords) }

\* any query on two argument sets, and the sample queries on any arguments
PolicyRequests ==
    { [text |-> t, args |-> a] : t \in PolicyTexts, a \in PolicyArgs }
    \cup
    { [text |-> t, args |-> a] :
        t \in Texts,
        a \in { NoArgsYet,
                Args("Toronto", NoProp, Absent, Num(22), Num(800), Absent, NoPrefs) } }

PolicyFiles ==
    { [readable |-> r, neighbourhoods |-> ns] :
        r \in BOOLEAN,
        ns \in { <<Row("Annex", Num(18), Num(24), Num(90), Num(3))>>,
                 <<Row("Yorkville", Num(30), Num(40), Num(95), Num(2))>> } }

vars ==
    <<file, cache, reads, strict, hints, default_prefs, live_mode, remote, sinks,
      pc, caller, text, args, inline_args, no_ledger, intent, act, city_median,
      calls, tool_result, plan_pack, final_pack, final_text, raised_in, ledger,
      mirror, log_out, loaders>>

NoFinalText == FinalOut("none", FALSE, AbsentActions, EmptyVerify, PlainAnswer(""))
NoPlanPack == [plan |-> "", actions |-> <<>>]
NoFinalPack ==
    [plan |-> "", actions |-> ListOf(<<>>), verify |-> EmptyVerify,
     answer |-> PlainAnswer(""), tool_result |-> NoEnvelope]

\* nothing loaded, no request in progress
Quiet ==
    /\ cache = NoCache
    /\ reads = <<>>
    /\ mirror = <<>>
    /\ log_out = <<>>
    /\ loaders = NoLoaders
    /\ pc = "idle"
    /\ caller = "direct"
    /\ text = <<>>
    /\ args = NoArgsYet
    /\ inline_args = NoArgsYet
    /\ no_ledger = FALSE
    /\ intent = ""
    /\ act = <<>>
    /\ city_median = None
    /\ calls = <<>>
    /\ tool_result = NoEnvelope
    /\ plan_pack = NoPlanPack
    /\ final_pack = NoFinalPack
    /\ final_text = NoFinalText
    /\ raised_in = ""
    /\ ledger = <<>>

\* the configuration when the environment sets none of the three
DefaultConfig ==
    /\ strict = TRUE
    /\ hints = TRUE
    /\ default_prefs = StandardPrefs
    /\ live_mode = FALSE
    /\ remote = NoRemote
    /\ sinks = DefaultSinks

InitPolicy ==
    /\ file \in PolicyFiles
    /\ DefaultConfig
    /\ Quiet

\* decide_and_act(user_text, args) is entered: the intent is classified
Enter(t) ==
    /\ intent' = classify_intent(t)
    /\ pc' = "dispatch"
    /\ act' = <<>>
    /\ city_median' = None
    /\ calls' = <<>>
    /\ tool_result' = NoEnvelope

\* a caller invokes decide_and_act on a request of the set reqs
DirectCall(reqs) ==
    /\ pc = "idle"
    /\ \E r \in reqs :
         /\ text' = r.text
         /\ args' = r.args
         /\ inline_args' = r.args
         /\ Enter(r.text)
    /\ caller' = "direct"
    /\ UNCHANGED <<dataVars, cfgVars, unitVars, agentVars, no_ledger>>

\* the request's objects are discarded once the response is handed back
Discard ==
    /\ text' = <<>>
    /\ args' = NoArgsYet
    /\ inline_args' = NoArgsYet
    /\ intent' = ""
    /\ act' = <<>>
    /\ city_median' = None
    /\ calls' = <<>>
    /\ tool_result' = NoEnvelope
    /\ no_ledger' = FALSE
    /\ plan_pack' = NoPlanPack
    /\ final_pack' = NoFinalPack
    /\ final_text' = NoFinalText
    /\ raised_in' = ""
    /\ ledger' = <<>>

\* the envelope is handed back to the caller
DirectReturn ==
    /\ pc = "returned"
    /\ caller = "direct"
    /\ pc' = "idle"
    /\ Discard
    /\ UNCHANGED <<dataVars, cfgVars, unitVars, caller>>

NextPolicy == DirectCall(PolicyRequests) \/ PolicyStep \/ DirectReturn

SpecPolicy == InitPolicy /\ [][NextPolicy]_vars


(***************************************************************************)
(* agent_bedrock.py: run_agent                                             *)
(***************************************************************************)
\* a request: the clean query, the inline arguments, the no_ledger flag
Request(t, a, nl) == [text |-> t, args |-> a, no_ledger |-> nl]

\* a ledger record: its stage ("entry" for the canonical entry) and the
\* verify mapping of its payload (none in the planning and tool_execute steps)
LogRec(stage, verify) == [stage |-> stage, verify |-> verify]

\* a run_agent that logs whatever no_ledger says
Logged_Always(recs) == ledger \o recs

\* write_step / write_entry unless no_ledger
Logged(recs) == IF no_ledger THEN ledger ELSE ledger \o recs

\* run_agent is entered: inline arguments parsed, city filled in from the
\* text, preferences merged with the defaults
AgentCall(reqs) ==
    /\ pc = "idle"
    /\ \E r \in reqs :
         /\ text' = r.text
         /\ args' = LET a == _auto_args_from_text(r.text, r.args)
                    IN  [a EXCEPT !.prefs = _normalize_prefs(default_prefs, a.prefs)]
         /\ inline_args' = r.args
         /\ no_ledger' = r.no_ledger
         /\ default_prefs' = DefaultsAfter(default_prefs, r.args.prefs)
    /\ caller' = "agent"
    /\ pc' = "planning"
    /\ UNCHANGED <<dataVars, strict, hints, live_mode, remote, sinks, unitVars,
                   polVars, agentVars>>

\* step 2 and the start of step 3: the planner is asked; run_agent logs the
\* planning and tool_execute steps and enters decide_and_act.  A failing
\* Converse call raises out of run_agent.
Plan(outs) ==
    /\ pc = "planning"
    /\ \E o \in outs :
         IF o.kind = "raise"
         THEN /\ pc' = "raised"
              /\ raised_in' = "planner"
              /\ UNCHANGED <<polVars, plan_pack, ledger>>
         ELSE /\ plan_pack' = _converse_plan(o)
              /\ ledger' = Logged(<<LogRec("planning", EmptyVerify),
                                     LogRec("tool_execute", EmptyVerify)>>)
              /\ Enter(text)
              /\ UNCHANGED raised_in
    /\ UNCHANGED <<dataVars, cfgVars, unitVars, reqVars, final_pack, final_text>>

\* step 4: the finalizer is asked once decide_and_act has returned; the
\* recommendations of the tool result are promoted into the answer
Finalize(outs) ==
    /\ pc = "returned"
    /\ caller = "agent"
    /\ \E o \in outs :
         IF o.kind = "raise"
         THEN /\ pc' = "raised"
              /\ raised_in' = "finalizer"
              /\ UNCHANGED <<final_pack, final_text>>
         ELSE /\ final_text' = o
              /\ final_pack' = Promote(_converse_finalize(o, plan_pack.plan,
                                                          plan_pack.actions, tool_result))
              /\ pc' = "finalized"
              /\ UNCHANGED raised_in
    /\ UNCHANGED <<dataVars, cfgVars, unitVars, reqVars, polVars, plan_pack, ledger>>

\* steps 5 and 6: the local verify pass, then the finalize step and the
\* canonical entry are logged
LocalVerify ==
    /\ pc = "finalized"
    /\ LET r == _local_verify(final_pack, strict, hints)
       IN  IF r.raised
           THEN /\ pc' = "raised"
                /\ raised_in' = "verify"
                /\ UNCHANGED <<final_pack, ledger>>
           ELSE /\ final_pack' = [final_pack EXCEPT !.verify = r.verify]
                /\ ledger' = Logged(<<LogRec("finalize", r.verify),
                                       LogRec("entry", r.verify)>>)
                /\ pc' = "done"
                /\ UNCHANGED raised_in
    /\ UNCHANGED <<dataVars, cfgVars, unitVars, reqVars, polVars, plan_pack, final_text>>

\* run_agent returns final_pack, or the exception reaches its caller
AgentReturn ==
    /\ pc \in {"done", "raised"}
    /\ pc' = "idle"
    /\ caller' = "direct"
    /\ Discard
    /\ UNCHANGED <<dataVars, cfgVars, unitVars>>

SuggestAction == ToolItem("suggest_neighbourhoods")

PlanOuts ==
    { PlanOut("raise", FALSE, AbsentActions),
      PlanOut("unparsed", FALSE, AbsentActions),
      PlanOut("parsed", FALSE, AbsentActions),
      PlanOut("parsed", TRUE, OtherActions),
      PlanOut("parsed", TRUE, ListOf(<<SuggestAction>>)),
      PlanOut("parsed", TRUE, ListOf(<<StrItem>>)) }

\* an item of a model-written recommendations list
LlmRec == [name |-> "Annex"]

FinalOuts ==
    { FinalOut("raise", FALSE, AbsentActions, EmptyVerify, PlainAnswer("")),
      FinalOut("unparsed", FALSE, AbsentActions, EmptyVerify, PlainAnswer("")),
      FinalOut("parsed", FALSE, AbsentActions, EmptyVerify, PlainAnswer("See tool_result")),
      FinalOut("parsed", TRUE, ListOf(<<SuggestAction>>), OkVerify,
               AnswerDict("model", RecsList(<<>>), Absent, Absent, Absent, PrefsAbsent)),
      FinalOut("parsed", TRUE, ListOf(<<SuggestAction>>), OkVerify,
               AnswerDict("model", RecsList(<<>>), Absent, Absent, Absent,
                          PrefsDict(StandardPrefs))),
      FinalOut("parsed", TRUE, ListOf(<<ToolItem("get_rent_data")>>), OkVerify,
               AnswerDict("model", RecsAbsent, Num(30), Num(240), Num(30), PrefsAbsent)),
      FinalOut("parsed", TRUE, ListOf(<<SuggestAction>>), NotOkVerify, AnswerStr) }

AgentTexts ==
    { Join(<<W_suggest, W_in_Toronto>>), W_suggest,
      Join(<<W_affordable, W_in_Toronto>>), Join(<<W_median, W_in_Montreal>>),
      Join(<<W_transit, W_in_Toronto>>), W_what_is_rti }

AgentRequests ==
    { Request(t, Args(NoCity, NoProp, Absent, m[1], m[2], Absent, prefs), nl) :
        t \in AgentTexts,
        m \in { <<Absent, Absent>>, <<Num(22), Num(800)>> },
        prefs \in { NoPrefs, Prefs(Absent, None, Absent), Prefs(Num(2), Absent, Absent) },
        nl \in BOOLEAN }

Init ==
    /\ file \in PolicyFiles
    /\ strict \in BOOLEAN
    /\ hints \in BOOLEAN
    /\ default_prefs = StandardPrefs
    /\ live_mode = FALSE
    /\ remote = NoRemote
    /\ sinks = DefaultSinks
    /\ Quiet

Next ==
    \/ AgentCall(AgentRequests)
    \/ Plan(PlanOuts)
    \/ PolicyStep
    \/ Finalize(FinalOuts)
    \/ LocalVerify
    \/ AgentReturn

Spec == Init /\ [][Next]_vars

(***************************************************************************)
(* The Verifier on every envelope shape run_agent can hand it: any actions *)
(* value with the sample answers, and any answer with the sample actions.  *)
(***************************************************************************)
AnyActions ==
    { AbsentActions, NullActions, OtherActions }
    \cup { ListOf(items) : items \in SeqsUpTo(ActionItems, MaxActions) }

SomeActions == { ListOf(<<SuggestAction>>), ListOf(<<ToolItem("get_rent_data")>>) }

BudgetTriples ==
    { <<Absent, Absent, Absent>>, <<Num(30), Num(240), Num(30)>>,
      <<Num(8), Num(240), Num(30)>>, <<Num(7), Num(240), Num(30)>>,
      <<Num(30), Num(240), Num(100)>>, <<Num(30), Num(240), Num(0)>>,
      <<Num(30), Num(240), Str>>, <<Num(30), Absent, Num(30)>> }

AnswerPrefs ==
    { PrefsAbsent, PrefsStr, PrefsDict(StandardPrefs),
      PrefsDict(Prefs(Num(20), None, Num(35))),
      PrefsDict(Prefs(Str, Absent, Absent)),
      PrefsDict(Prefs(Absent, Num(130), Num(28))),
      PrefsDict(Prefs(Absent, Num(300), Absent)) }

AnyAnswers ==
    { AnswerStr, PlainAnswer("See tool_result") }
    \cup { AnswerDict("model", recs, t[1], t[2], t[3], prefs) :
             recs \in { RecsAbsent, RecsList(<<>>), RecsList(<<LlmRec>>) },
             t \in BudgetTriples, prefs \in AnswerPrefs }

SomeAnswers ==
    { PlainAnswer("See tool_result"), AnswerStr,
      AnswerDict("model", RecsList(<<>>), Absent, Absent, Absent, PrefsDict(StandardPrefs)),
      AnswerDict("model", RecsAbsent, Num(30), Num(240), Num(30), PrefsAbsent) }

VerifyFinalOuts ==
    { FinalOut("raise", FALSE, AbsentActions, EmptyVerify, PlainAnswer("")),
      FinalOut("unparsed", FALSE, AbsentActions, EmptyVerify, PlainAnswer("")) }
    \cup { FinalOut("parsed", TRUE, a, v, ans) :
             a \in AnyActions, v \in {EmptyVerify, OkVerify, NotOkVerify},
             ans \in SomeAnswers }
    \cup { FinalOut("parsed", TRUE, a, v, ans) :
             a \in SomeActions, v \in {EmptyVerify, OkVerify, NotOkVerify},
             ans \in AnyAnswers }

VerifyRequests ==
    { Request(t, Args(NoCity, NoProp, Absent, Num(22), Num(800), Absent, NoPrefs), FALSE) :
        t \in { Join(<<W_suggest, W_in_Toronto>>), Join(<<W_affordable, W_in_Toronto>>) } }

InitVerify ==
    /\ file \in {f \in PolicyFiles : f.readable}
    /\ strict \in BOOLEAN
    /\ hints \in BOOLEAN
    /\ default_prefs = StandardPrefs
    /\ live_mode = FALSE
    /\ remote = NoRemote
    /\ sinks = DefaultSinks
    /\ Quiet

NextVerify ==
    \/ AgentCall(VerifyRequests)
    \/ Plan(PlanOuts)
    \/ AffordLookup \/ AffordEvaluate \/ Suggest
    \/ Finalize(VerifyFinalOuts)
    \/ LocalVerify
    \/ AgentReturn

SpecVerify == InitVerify /\ [][NextVerify]_vars

(***************************************************************************)
(* The Recommender reached through decide_and_act, on any snapshot of up   *)
(* to MaxRows rows and any preference set.                                 *)
(***************************************************************************)
SuggestPrefs ==
    { Prefs(md, mt, tri) :
        md \in {Absent, Num(5), Num(12)},
        mt \in {Absent, None, Num(120), Num(141), Num(180)},
        tri \in {Absent, Num(25), Num(30)} }

SuggestRequests ==
    { [text |-> W_suggest,
       args |-> Args("Toronto", p, Absent, Absent, inc, Absent, prefs)] :
        p \in {NoProp, "2Bed"}, inc \in {Absent, Num(700)}, prefs \in SuggestPrefs }

InitSuggest ==
    /\ file \in {d \in Datasets : d.readable}
    /\ DefaultConfig
    /\ Quiet

NextSuggest == DirectCall(SuggestRequests) \/ Suggest \/ DirectReturn

SpecSuggest == InitSuggest /\ [][NextSuggest]_vars

(***************************************************************************)
(* The three data tools invoked directly (lambda_handler), in local and in *)
(* live mode, on snapshots of up to MaxRows rows.  args holds the fields   *)
(* of the event.                                                           *)
(***************************************************************************)
ToolRowPool ==
    { Row("Annex", Num(18), Num(24), Num(90), Num(3)),
      Row("Junction", Num(19), Absent, Num(70), Num(8)),
      Row("Weston", Num(16), Str, Num(70), Num(8)) }

ToolCities == {"Toronto", "Atlantis"}
ToolProps == {"1bed", "2Bed", "loft"}

\* lambda_handler of a tool has answered: the call is recorded
Answered(tool, ev, r, a) ==
    /\ calls' = <<CallRec(tool, ev, r)>>
    /\ cache' = CacheAfter(cache, file, live_mode, remote)
    /\ reads' = SourcesRead(cache, file, live_mode, remote)
    /\ args' = a
    /\ inline_args' = a
    /\ pc' = "answered"
    /\ UNCHANGED <<file, cfgVars, unitVars, agentVars, caller, text, no_ledger, intent, act,
                   city_median, tool_result>>

InvokeRent ==
    /\ pc = "idle"
    /\ \E c \in ToolCities, p \in ToolProps, n \in BOOLEAN :
         LET ev == [city |-> c, property_type |-> p, include_neighbourhoods |-> n]
         IN  Answered("get_rent_data", ev,
                      tool_rent(ev, _load_json(cache, file, live_mode, remote)),
                      Args(c, p, Absent, Absent, Absent, Absent, NoPrefs))

InvokeStats ==
    /\ pc = "idle"
    /\ \E c \in ToolCities, p \in ToolProps :
         LET ev == [city |-> c, property_type |-> p]
         IN  Answered("get_neighbourhood_stats", ev,
                      tool_stats(ev, _load_json(cache, file, live_mode, remote)),
                      Args(c, p, Absent, Absent, Absent, Absent, NoPrefs))

InvokeSuggest ==
    /\ pc = "idle"
    /\ \E c \in ToolCities, p \in ToolProps,
          prefs \in {NoPrefs, Prefs(Num(12), Num(120), Num(30)),
                    Prefs(Num(12), None, Num(30))} :
         LET a == Args(c, p, Absent, Absent, Num(800), Absent, prefs)
             ev == SuggestEvent(a)
         IN  Answered("suggest_neighbourhoods", ev,
                      tool_suggest(ev, _load_json(cache, file, live_mode, remote)), a)

\* the response is handed back; the process and its cache live on
ToolReturn ==
    /\ pc = "answered"
    /\ pc' = "idle"
    /\ Discard
    /\ UNCHANGED <<dataVars, cfgVars, unitVars, caller>>

RemoteOutcomes ==
    { Remote(o, <<>>) : o \in {"timeout", "http_error", "unparsable", "not_a_mapping"} }
    \cup { Remote("ok", <<Row("Yorkville", Num(30), Num(40), Num(95), Num(2))>>) }

InitTools ==
    /\ file \in { [readable |-> r, neighbourhoods |-> ns] :
                    r \in BOOLEAN, ns \in SeqsUpTo(ToolRowPool, MaxRows) }
    /\ strict = TRUE
    /\ hints = TRUE
    /\ default_prefs = StandardPrefs
    /\ live_mode \in BOOLEAN
    /\ remote \in IF live_mode THEN RemoteOutcomes ELSE {NoRemote}
    /\ sinks = DefaultSinks
    /\ Quiet

NextTools == InvokeRent \/ InvokeStats \/ InvokeSuggest \/ ToolReturn

SpecTools == InitTools /\ [][NextTools]_vars

(***************************************************************************)
(* The Affordability Calculator invoked directly on events whose fields    *)
(* may be missing, null, non-numeric, non-positive or on a band boundary.  *)
(* args holds the fields of the event.                                     *)
(***************************************************************************)
AffordListings ==
    {Absent, Str, Num(-5), Num(3), Num(14), Num(15), Num(49), Num(51), Num(25001)}
AffordMedians == {None, Num(0), Num(14), Num(50), Num(25000)}
AffordIncomes == {Absent, Num(-1), Num(800), Num(1200)}
AffordRatios ==
    {Absent, None, Str, Num(-10), Num(0), Num(5), Num(12), Num(30), Num(100), Num(150)}

InvokeAfford ==
    /\ pc = "idle"
    /\ \E lp \in AffordListings, cm \in AffordMedians, inc \in AffordIncomes,
          tr \in AffordRatios :
         LET ev == [city |-> "", property_type |-> "", listing_price |-> lp,
                    city_median |-> cm, income_annual |-> inc, target_ratio |-> tr]
             a == Args(NoCity, NoProp, cm, lp, inc, tr, NoPrefs)
         IN  /\ calls' = <<CallRec("evaluate_rent_affordability", ev, tool_afford(ev))>>
             /\ args' = a
             /\ inline_args' = a
    /\ pc' = "answered"
    /\ UNCHANGED <<dataVars, cfgVars, unitVars, agentVars, caller, text, no_ledger, intent, act,
                   city_median, tool_result>>

InitAfford ==
    /\ file \in {d \in Datasets : d.readable /\ d.neighbourhoods = <<>>}
    /\ DefaultConfig
    /\ Quiet

NextAfford == InvokeAfford \/ ToolReturn

SpecAfford == InitAfford /\ [][NextAfford]_vars

(***************************************************************************)
(* One process serving tool invocations while its data sources change      *)
(* under it: the local snapshot is rewritten or removed, the URL starts or *)
(* stops answering.                                                        *)
(***************************************************************************)
CacheFiles ==
    { [readable |-> r, neighbourhoods |-> ns] :
        r \in BOOLEAN,
        ns \in { <<>>, <<Row("Annex", Num(18), Num(24), Num(90), Num(3))>>,
                 <<Row("Junction", Num(19), Absent, Num(70), Num(8))>> } }

\* the environment replaces the local file or changes what the URL yields
SourceChange ==
    /\ pc = "idle"
    /\ \/ /\ file' \in CacheFiles \ {file}
          /\ UNCHANGED remote
       \/ /\ live_mode
          /\ remote' \in RemoteOutcomes \ {remote}
          /\ UNCHANGED file
    /\ UNCHANGED <<cache, reads, strict, hints, default_prefs, live_mode, sinks,
                   unitVars, reqVars, polVars, agentVars, pc>>

InitCache ==
    /\ file \in CacheFiles
    /\ strict = TRUE
    /\ hints = TRUE
    /\ default_prefs = StandardPrefs
    /\ live_mode \in BOOLEAN
    /\ remote \in IF live_mode THEN RemoteOutcomes ELSE {NoRemote}
    /\ sinks = DefaultSinks
    /\ Quiet

NextCache == InvokeStats \/ InvokeSuggest \/ ToolReturn \/ SourceChange

SpecCache == InitCache /\ [][NextCache]_vars

(***************************************************************************)
(* Two callers inside _load_json at once.  A caller tests the cache, then  *)
(* in live mode fetches the URL, which answers or fails for that caller,   *)
(* then reads the local file; whatever it obtained it stores in _CACHE and *)
(* returns.                                                                *)
(***************************************************************************)
Callers == {1, 2}

\* if "dataset" in _CACHE: return it; else go to the first source
LoadEnter(t) ==
    /\ loaders[t].at = "out"
    /\ loaders' = [loaders EXCEPT ![t] =
                     IF cache.loaded THEN Loader("done", CachedOf(cache))
                     ELSE IF live_mode THEN Loader("fetch", NoData)
                     ELSE Loader("local", NoData)]
    /\ UNCHANGED <<cache, reads>>

\* urlopen + json.loads: the payload is cached and returned, or the fetch
\* raises for this caller, who falls back to the local file
LoadFetch(t) ==
    /\ loaders[t].at = "fetch"
    /\ \/ /\ loaders' = [loaders EXCEPT ![t] =
                           Loader("done", [ok |-> TRUE,
                                           neighbourhoods |-> remote.neighbourhoods])]
          /\ cache' = [loaded |-> TRUE, usable |-> TRUE,
                       neighbourhoods |-> remote.neighbourhoods]
          /\ reads' = <<"remote">>
       \/ /\ loaders' = [loaders EXCEPT ![t] = Loader("local", NoData)]
          /\ UNCHANGED <<cache, reads>>

\* open + json.load of the local file; the dataset is cached and returned
LoadLocal(t) ==
    /\ loaders[t].at = "local"
    /\ loaders' = [loaders EXCEPT ![t] =
                     Loader("done", [ok |-> TRUE, neighbourhoods |-> file.neighbourhoods])]
    /\ cache' = [loaded |-> TRUE, usable |-> TRUE, neighbourhoods |-> file.neighbourhoods]
    /\ reads' = <<"local">>

\* both requests are over; the process and its cache live on
LoadersLeave ==
    /\ \A t \in Callers : loaders[t].at = "done"
    /\ loaders' = NoLoaders
    /\ UNCHANGED <<cache, reads>>

\* no request of the other kinds is in progress meanwhile
RaceFrame ==
    /\ pc = "idle"
    /\ UNCHANGED <<file, cfgVars, reqVars, polVars, agentVars, mirror, log_out, pc>>

RaceEnter == RaceFrame /\ \E t \in Callers : LoadEnter(t)
RaceFetch == RaceFrame /\ \E t \in Callers : LoadFetch(t)
RaceLocal == RaceFrame /\ \E t \in Callers : LoadLocal(t)
RaceLeave == RaceFrame /\ LoadersLeave

InitRace ==
    /\ file \in { [readable |-> TRUE, neighbourhoods |-> ns] :
                    ns \in SeqsUpTo(ToolRowPool, MaxRows) }
    /\ strict = TRUE
    /\ hints = TRUE
    /\ default_prefs = StandardPrefs
    /\ live_mode \in BOOLEAN
    /\ remote \in IF live_mode
                  THEN {Remote("ok", <<Row("Yorkville", Num(30), Num(40), Num(95), Num(2))>>)}
                  ELSE {NoRemote}
    /\ sinks = DefaultSinks
    /\ Quiet

NextRace == RaceEnter \/ RaceFetch \/ RaceLocal \/ RaceLeave

SpecRace == InitRace /\ [][NextRace]_vars

(***************************************************************************)
(* The ledger writers called on their own, up to MaxWrites times, with any *)
(* sink configuration and either sink failing or not on each write.        *)
(***************************************************************************)
\* one call of a writer: the environment's part and what came of it
Written(call, stage, local_raises, s3_raises, r) ==
    /\ log_out' = Append(log_out, [call |-> call, stage |-> stage,
                                   local_raises |-> local_raises,
                                   s3_raises |-> s3_raises,
                                   entry |-> r.entry, step |-> r.step])
    /\ ledger' = IF r.local THEN Append(ledger, LogRec(stage, EmptyVerify)) ELSE ledger
    /\ mirror' = IF r.s3 THEN Append(mirror, stage) ELSE mirror
    /\ UNCHANGED <<dataVars, cfgVars, reqVars, polVars, plan_pack, final_pack,
                   final_text, raised_in, loaders, pc>>

WriteStep ==
    /\ pc = "idle"
    /\ Len(log_out) < MaxWrites
    /\ \E stage \in {"planning", "tool_execute", "finalize"},
          local_raises \in BOOLEAN, s3_raises \in BOOLEAN :
         Written("write_step", stage, local_raises, s3_raises,
                 write_step(sinks.local, sinks.s3, local_raises, s3_raises))

WriteEntry ==
    /\ pc = "idle"
    /\ Len(log_out) < MaxWrites
    /\ \E local_raises \in BOOLEAN, s3_raises \in BOOLEAN :
         Written("write_entry", "entry", local_raises, s3_raises,
                 write_entry(sinks.local, sinks.s3, local_raises, s3_raises))

InitLedger ==
    /\ file \in {d \in Datasets : d.readable /\ d.neighbourhoods = <<>>}
    /\ strict = TRUE
    /\ hints = TRUE
    /\ default_prefs = StandardPrefs
    /\ live_mode = FALSE
    /\ remote = NoRemote
    /\ sinks \in [local : BOOLEAN, s3 : BOOLEAN]
    /\ Quiet

NextLedger == WriteStep \/ WriteEntry

SpecLedger == InitLedger /\ [][NextLedger]_vars

(***************************************************************************)
(* run_agent on an explain query, for any inline preferences and several   *)
(* settings of RP_PREFS_DEFAULT.                                           *)
(***************************************************************************)
DefaultPrefsSettings ==
    { StandardPrefs, Prefs(Num(12), None, Absent), NoPrefs }

InlinePrefs ==
    { Prefs(md, mt, tri) :
        md \in {Absent, None, Num(5), Str},
        mt \in {Absent, None, Num(100)},
        tri \in {Absent, None, Num(25)} }

PrefsRequests ==
    { Request(W_what_is_rti,
              Args(NoCity, NoProp, Absent, Absent, Absent, Absent, prefs), TRUE) :
        prefs \in InlinePrefs }

InitPrefs ==
    /\ file \in {f \in PolicyFiles : f.readable}
    /\ strict = TRUE
    /\ hints = TRUE
    /\ default_prefs \in DefaultPrefsSettings
    /\ live_mode = FALSE
    /\ remote = NoRemote
    /\ sinks = DefaultSinks
    /\ Quiet

NextPrefs ==
    \/ AgentCall(PrefsRequests)
    \/ Plan(PlanOuts)
    \/ Explain
    \/ Finalize(FinalOuts)
    \/ LocalVerify
    \/ AgentReturn

SpecPrefs == InitPrefs /\ [][NextPrefs]_vars

(***************************************************************************)
(* The Recommender's ranking, on snapshots of up to MaxRankRows rows that  *)
(* pass the default filters, two of them with the same figures.            *)
(***************************************************************************)
RankPool ==
    { Row("Annex", Num(18), Num(24), Num(90), Num(3)),
      Row("Riverdale", Num(18), Num(24), Num(90), Num(3)),
      Row("Junction", Num(19), Absent, Num(70), Num(8)) }

RankRequests ==
    { [text |-> W_suggest,
       args |-> Args("Toronto", NoProp, Absent, Absent, inc, Absent, prefs)] :
        inc \in {Absent, Num(700)},
        prefs \in {NoPrefs, Prefs(Num(12), Num(120), Num(30))} }

InitRank ==
    /\ file \in { [readable |-> TRUE, neighbourhoods |-> ns] :
                    ns \in SeqsUpTo(RankPool, MaxRankRows) }
    /\ DefaultConfig
    /\ Quiet

NextRank == DirectCall(RankRequests) \/ Suggest \/ DirectReturn

SpecRank == InitRank /\ [][NextRank]_vars

(***************************************************************************)
(* Properties.                                                             *)
(***************************************************************************)
\* the finalized answer and the raw tool result carry no recommendation
NoRecommendationAnywhere ==
    /\ final_pack.answer.kind = "dict" => final_pack.answer.recommendations.items = <<>>
    /\ final_pack.tool_result.answer.recommendations = <<>>

\* the verify mapping of the no-match rule
IsNoMatch(v) ==
    /\ ~v.ok
    /\ Len(v.reasons) >= 1
    /\ v.reasons[1] = "No neighborhoods matched"

\* the answer carries the three budget fields as numbers
CarriesBudgetFields ==
    /\ final_pack.answer.kind = "dict"
    /\ IsNum(final_pack.answer.listing_price)
    /\ IsNum(final_pack.answer.income_annual)
    /\ IsNum(final_pack.answer.target_ratio)

\* listing_price > (income_annual / 12) * (target_ratio * 1.25)
AboveToleranceBand ==
    final_pack.answer.listing_price.n * 4800
      > final_pack.answer.income_annual.n * final_pack.answer.target_ratio.n * 5

IsBudgetMismatch(v) ==
    /\ ~v.ok
    /\ v.notes = "Listing far above target ratio"

\* C1: in strict mode, whenever the last action of the envelope's actions
\* list is the Recommender (suggest_neighbourhoods) and neither the finalized
\* answer nor the raw tool result carries a recommendation, the Verifier's
\* result is ok = false with the no-match reason, for every actions list,
\* whatever its length and wherever the suggest action stands in it.
C1_NoMatchWhenLastToolSuggest ==
    (/\ pc = "done"
     /\ strict
     /\ final_pack.actions.kind = "list"
     /\ Len(final_pack.actions.items) > 0
     /\ final_pack.actions.items[Len(final_pack.actions.items)] = SuggestAction
     /\ NoRecommendationAnywhere)
    => IsNoMatch(final_pack.verify)

\* C2: the Verifier never throws: on every envelope run_agent hands it
\* (action items that are no mappings or lack a tool key, an answer that is
\* no mapping, preference values missing or non-numeric) _local_verify
\* returns a verify mapping, so no exception leaves run_agent from step 5.
C2_VerifierNeverThrows ==
    raised_in # "verify"

\* C3: the Orchestrator always answers: when the planner's or the finalizer's
\* language-model call fails, run_agent still returns an envelope and no
\* exception reaches its caller.
C3_OrchestratorAlwaysAnswers ==
    raised_in \notin {"planner", "finalizer"}

\* C4: end to end through run_agent with strict verification and hints on:
\* a suggest query with the default preferences on a dataset where no
\* neighbourhood passes the filters gets a tool result with empty
\* recommendations and reason no_neighbourhood_passed_filters, and a final
\* verify of ok = false that carries exactly two hints after the no-match
\* reason.
C4_NoMatchCarriesTwoHints ==
    (/\ pc = "done"
     /\ strict /\ hints
     /\ intent = "suggest"
     /\ args.prefs = default_prefs
     /\ Len(calls) = 1
     /\ calls[1].status = 200
     /\ calls[1].body.recommendations = <<>>)
    => /\ calls[1].body.reason = "no_neighbourhood_passed_filters"
       /\ final_pack.tool_result.answer.recommendations = <<>>
       /\ IsNoMatch(final_pack.verify)
       /\ Len(final_pack.verify.reasons) = 3

\* C5 (amended): in strict mode, for every answer that carries numeric
\* listing_price, income_annual and target_ratio with 0 < target_ratio < 1,
\* and for which the no-recommendation rule did not fail, the Verifier
\* returns ok = false with the budget-mismatch note whenever
\* listing_price > (income_annual / 12) * (target_ratio * 1.25).
C5_BudgetMismatchInsideUnitInterval ==
    (/\ pc = "done"
     /\ strict
     /\ CarriesBudgetFields
     /\ ~IsNoMatch(final_pack.verify)
     /\ 0 < final_pack.answer.target_ratio.n
     /\ final_pack.answer.target_ratio.n < 100
     /\ AboveToleranceBand)
    => IsBudgetMismatch(final_pack.verify)

\* an answer of listing 800, income 24000, ratio 0.30 that the Verifier failed
C5_Witness ==
    /\ pc = "done"
    /\ strict
    /\ CarriesBudgetFields
    /\ final_pack.answer.listing_price = Num(8)
    /\ final_pack.answer.income_annual = Num(240)
    /\ final_pack.answer.target_ratio = Num(30)
    /\ IsBudgetMismatch(final_pack.verify)

\* C5 as stated: the same for every value of target_ratio
C5_BudgetMismatchEveryRatio ==
    (/\ pc = "done"
     /\ strict
     /\ CarriesBudgetFields
     /\ ~IsNoMatch(final_pack.verify)
     /\ AboveToleranceBand)
    => IsBudgetMismatch(final_pack.verify)

Intents == {"explain", "affordability", "suggest", "city_rent", "neigh_stats"}

\* the rule-sets in their order of priority
RuleSets ==
    << [intent |-> "explain", keys |-> ExplainKeys],
       [intent |-> "affordability", keys |-> AffordKeys],
       [intent |-> "suggest", keys |-> SuggestKeys],
       [intent |-> "city_rent", keys |-> CityRentKeys],
       [intent |-> "neigh_stats", keys |-> TransitKeys] >>

\* the intent of the earliest rule-set with a keyword in t, else city_rent
FirstMatchIntent(t) ==
    LET hit == {i \in 1..Len(RuleSets) : AnyIn(Lower(t), RuleSets[i].keys)}
    IN  IF hit = {} THEN "city_rent"
        ELSE RuleSets[CHOOSE i \in hit : \A j \in hit : i <= j].intent

\* C6: classify_intent is total and first-match-wins: every query is given
\* one of the five intents, the one of the earliest rule-set (explain >
\* affordability > suggest > city_rent > transit) that has a keyword in the
\* lower-cased text, and city_rent when no rule-set matches.
C6_FirstMatchWins ==
    pc # "idle" => /\ intent \in Intents
                   /\ intent = FirstMatchIntent(text)

\* a query with an affordability and a suggest keyword, classified by the earlier
C6_Witness ==
    /\ pc = "dispatch"
    /\ AnyIn(Lower(text), AffordKeys) /\ AnyIn(Lower(text), SuggestKeys)
    /\ ~AnyIn(Lower(text), ExplainKeys)
    /\ intent = "affordability"

\* C7: when the intent is city_rent, neigh_stats or suggest and no city is
\* given (absent or empty), decide_and_act invokes no tool and returns an
\* empty actions list, verify {ok: false, notes: "missing_city"} and a
\* clarifying question without an error field; explain and affordability
\* requests are never answered with missing_city.
C7_MissingCity ==
    pc = "returned" =>
      /\ (intent \in {"city_rent", "neigh_stats", "suggest"} /\ args.city \in {NoCity, ""})
           => /\ calls = <<>>
              /\ tool_result.actions = <<>>
              /\ tool_result.verify.keys = {"ok", "notes"}
              /\ ~tool_result.verify.ok
              /\ tool_result.verify.notes = "missing_city"
              /\ tool_result.answer.keys = {"message"}
              /\ tool_result.answer.message = "which_city"
      /\ intent \in {"explain", "affordability"}
           => tool_result.verify.notes # "missing_city"

\* a suggest request without a city that was answered
C7_Witness ==
    /\ pc = "returned"
    /\ intent = "suggest"
    /\ args.city = NoCity
    /\ tool_result.verify.notes = "missing_city"

\* C8: the first tool call that returns a status other than 200 ends the
\* branch: it is the last call of the request, no tool is called twice, and
\* the envelope has verify.ok = false and an answer with an error field whose
\* details are the failing tool's body.
C8_FailureShortCircuits ==
    /\ \A i \in 1..Len(calls) : calls[i].status # 200 => i = Len(calls)
    /\ \A i, j \in 1..Len(calls) : calls[i].tool = calls[j].tool => i = j
    /\ (pc = "returned" /\ calls # <<>> /\ calls[Len(calls)].status # 200)
         => /\ ~tool_result.verify.ok
            /\ "error" \in tool_result.answer.keys
            /\ tool_result.answer.error # ""
            /\ tool_result.answer.details = calls[Len(calls)].body

\* an affordability request whose city-median lookup failed
C8_Witness ==
    /\ pc = "returned"
    /\ intent = "affordability"
    /\ Len(calls) = 1
    /\ calls[1].tool = "get_rent_data"
    /\ calls[1].status # 200
    /\ tool_result.answer.error = "failed_to_get_city_median"

\* C9: the actions list of every returned envelope holds one record per tool
\* invocation, in the order of the invocations, and every record carries the
\* three fields tool, args and status (the status the tool returned).
C9_ActionsRecordCalls ==
    pc = "returned" =>
      /\ Len(tool_result.actions) = Len(calls)
      /\ \A i \in 1..Len(calls) :
           /\ tool_result.actions[i].tool = calls[i].tool
           /\ tool_result.actions[i].status = calls[i].status
           /\ tool_result.actions[i].keys = {"tool", "args", "status"}

\* C10: every neighbourhood the Recommender returns satisfies the three
\* constraints with respect to the preference values supplied in the
\* request: distance_km <= max_distance_km, transit >= min_transit and
\* median / (income_annual / 12) <= target_rent_to_income.
C10_ReturnedSatisfyPrefs ==
    (pc = "returned" /\ calls # <<>> /\ calls[1].tool = "suggest_neighbourhoods"
       /\ calls[1].status = 200)
    => \A i \in 1..Len(calls[1].body.recommendations) :
         LET rec == calls[1].body.recommendations[i]
             income == _safe_float(Get(args.income_annual), 800)
             p == args.prefs
         IN  /\ IsNum(p.max_distance_km) => rec.distance_km <= p.max_distance_km.n
             /\ IsNum(p.min_transit) => 2 * rec.transit >= p.min_transit.n
             /\ IsNum(p.target_rent_to_income)
                  => 1200 * rec.median <= p.target_rent_to_income.n * income

\* the Recommender was called on the request and answered 200
SuggestAnswered ==
    /\ pc = "returned"
    /\ Len(calls) = 1
    /\ calls[1].tool = "suggest_neighbourhoods"
    /\ calls[1].status = 200

\* the rows that survived the filters of the request, scored, in dataset order
SurvivingRows ==
    ScoredRows(SuggestEvent(fill_defaults(args)),
               [ok |-> TRUE, neighbourhoods |-> file.neighbourhoods])

\* recs is a stable top-three selection of all: f places each returned row
\* in the dataset order
IsStableTop(recs, all, f) ==
    /\ \A i \in 1..Len(recs) : recs[i] = all[f[i]]
    /\ \A i, j \in 1..Len(recs) :
         i < j => /\ f[i] # f[j]
                  /\ \/ recs[i].score > recs[j].score
                     \/ (recs[i].score = recs[j].score /\ f[i] < f[j])
    /\ \A k \in 1..Len(all) :
         (\A i \in 1..Len(recs) : f[i] # k)
           => \A i \in 1..Len(recs) :
                \/ all[k].score < recs[i].score
                \/ (all[k].score = recs[i].score /\ f[i] < k)

\* C11: the Recommender returns at most 3 neighbourhoods in descending order
\* of score; they are the top of the ranking (no survivor left out scores
\* strictly higher than a returned one), and survivors of equal score keep
\* their dataset order, among the returned rows and against the rows left out.
C11_TopThreeStable ==
    SuggestAnswered =>
      LET recs == calls[1].body.recommendations
          all == SurvivingRows
      IN  /\ Len(recs) = Min2(3, Len(all))
          /\ \E f \in [1..Len(recs) -> 1..Len(all)] : IsStableTop(recs, all, f)

\* four survivors, two of them with the same score, three returned
C11_Witness ==
    /\ SuggestAnswered
    /\ Len(calls[1].body.recommendations) = 3
    /\ Len(SurvivingRows) = 4
    /\ \E i, j \in 1..4 :
         /\ i < j
         /\ SurvivingRows[i].score = SurvivingRows[j].score
         /\ SurvivingRows[i].name # SurvivingRows[j].name

\* a constraint whose preference is absent or null is disabled; the others
\* are applied with the value the request supplied
PassesSupplied(row, prop, income, p) ==
    LET med == get_neighbourhood_median(row, prop)
        transit == get_neighbourhood_transit(row, 0)
        dist == Max2(0, _safe_float(GetOr(row.distance_km, Num(0)), 0))
    IN  /\ med # None
        /\ IsNum(p.max_distance_km) => dist <= p.max_distance_km.n
        /\ IsNum(p.min_transit) => 2 * transit >= p.min_transit.n
        /\ IsNum(p.target_rent_to_income)
             => 1200 * med.n <= p.target_rent_to_income.n * income

\* C12: a preference that is absent or explicitly null disables its
\* constraint: the Recommender answers 200 and rejects no neighbourhood on a
\* constraint whose preference is absent or null, so every row that has a
\* median and passes the constraints that were supplied is among the
\* survivors.
C12_AbsentOrNullDisables ==
    (pc = "returned" /\ Len(calls) = 1 /\ calls[1].tool = "suggest_neighbourhoods")
    => /\ calls[1].status = 200
       /\ \A k \in 1..Len(file.neighbourhoods) :
            PassesSupplied(file.neighbourhoods[k], calls[1].property_type,
                           _safe_float(GetOr(args.income_annual, Num(800)), 800),
                           args.prefs)
              => \E i \in 1..Len(SurvivingRows) :
                   SurvivingRows[i].name = file.neighbourhoods[k].name

PrefKeys == {"max_distance_km", "min_transit", "target_rent_to_income"}

\* what the merge of one key must give
MergedAsSpecified(dflt, user, merged) ==
    /\ user.t \in {"num", "str"} => merged = user
    /\ (user.t = "absent" /\ dflt.t \in {"num", "str"}) => merged = dflt
    /\ (user.t = "absent" /\ dflt.t \in {"absent", "none"}) => merged = Absent
    /\ (user.t = "none" /\ dflt.t \in {"num", "str"}) => merged = Absent

DataTools == {"get_rent_data", "get_neighbourhood_stats", "suggest_neighbourhoods"}

\* C14: a property_type outside {studio, 1bed, 2bed, 3bed} yields an explicit
\* 400 error from every data tool that takes one (get_rent_data,
\* get_neighbourhood_stats, suggest_neighbourhoods): none of them answers 200
\* for it, and each answers 400 when the dataset is loaded and the city known.
C14_UnsupportedPropertyIs400 ==
    (/\ pc = "answered"
     /\ calls[1].tool \in DataTools
     /\ LowerProp(calls[1].property_type) \notin _SUPPORTED_PROPS)
    => /\ calls[1].status # 200
       /\ (cache.loaded /\ cache.usable /\ city_key(calls[1].city) = "Toronto")
            => calls[1].status = 400

\* the names a tool response lists: neighbourhoods and recommendations
ListedNames ==
    { calls[1].body.neighbourhoods[i].name :
        i \in 1..Len(calls[1].body.neighbourhoods) }
    \cup { calls[1].body.recommendations[i].name :
             i \in 1..Len(calls[1].body.recommendations) }

\* the names the Recommender scored for the event held in args
ScoredNames ==
    IF calls[1].tool = "suggest_neighbourhoods"
    THEN LET scored == ScoredRows(SuggestEvent(args),
                          [ok |-> TRUE, neighbourhoods |-> cache.neighbourhoods])
         IN  { scored[i].name : i \in 1..Len(scored) }
    ELSE {}

\* the snapshot row stores a number as its median for the property type
HasNumericMedian(row, prop) ==
    /\ LowerProp(prop) \in _SUPPORTED_PROPS
    /\ IsNum(row.median[LowerProp(prop)])

\* C19: a row whose median for the requested property type is missing or not
\* numeric appears in none of the outputs: not in the stats list, not in
\* get_rent_data's neighbourhood list, not among the Recommender's scored or
\* returned rows.
C19_RowsWithoutMedianSkipped ==
    (pc = "answered" /\ calls[1].status = 200)
    => \A i \in 1..Len(cache.neighbourhoods) :
         cache.neighbourhoods[i].name \in ListedNames \cup ScoredNames
         => HasNumericMedian(cache.neighbourhoods[i], calls[1].property_type)

\* a tool lists some rows of a snapshot that also holds a row with a missing
\* and a row with a non-numeric median for the requested type
C19_Witness ==
    /\ pc = "answered"
    /\ calls[1].status = 200
    /\ calls[1].tool = "get_neighbourhood_stats"
    /\ ListedNames # {}
    /\ \E i, j \in 1..Len(cache.neighbourhoods) :
         /\ cache.neighbourhoods[i].median[LowerProp(calls[1].property_type)] = Absent
         /\ cache.neighbourhoods[j].median[LowerProp(calls[1].property_type)] = Str

RemoteFailures == {"timeout", "http_error", "unparsable", "not_a_mapping"}

\* C20: in live mode a failed remote fetch (timeout, non-200 status, malformed
\* payload) makes _load_json serve the local snapshot silently: whenever the
\* local file is well-formed no lookup ends in an error for want of data, and
\* the snapshot in use is the local one.
C20_LiveFailureFallsBackToLocal ==
    (/\ pc = "answered"
     /\ live_mode
     /\ remote.outcome \in RemoteFailures
     /\ file.readable)
    => /\ calls[1].status # 500
       /\ cache.loaded
       /\ cache.usable
       /\ cache.neighbourhoods = file.neighbourhoods

\* C18: a 200 response of the Recommender carries the reason
\* "no_neighbourhood_passed_filters" exactly when its recommendations list is
\* empty, and a request for a known city that no row survives is answered 200,
\* never with an error status.
C18_ReasonIffEmpty ==
    (pc = "answered" /\ calls[1].tool = "suggest_neighbourhoods")
    => /\ calls[1].status = 200
            => /\ calls[1].body.reason \in {"", "no_neighbourhood_passed_filters"}
               /\ calls[1].body.reason = "no_neighbourhood_passed_filters"
                    <=> calls[1].body.recommendations = <<>>
       /\ (cache.loaded /\ cache.usable /\ city_key(calls[1].city) = "Toronto"
              /\ ScoredNames = {})
            => calls[1].status = 200

\* the Recommender answers 200 with the reason on a snapshot that has rows,
\* none of which survives
C18_Witness ==
    /\ pc = "answered"
    /\ calls[1].tool = "suggest_neighbourhoods"
    /\ calls[1].status = 200
    /\ cache.neighbourhoods # <<>>
    /\ calls[1].body.recommendations = <<>>
    /\ calls[1].body.reason = "no_neighbourhood_passed_filters"

\* the Affordability Calculator has answered the event held in args
AffordAnswered ==
    /\ pc = "answered"
    /\ calls[1].tool = "evaluate_rent_affordability"

\* the field holds a number above 0
Positive(x) == IsNum(x) /\ x.n > 0

Sign(x) == IF x > 0 THEN 1 ELSE IF x < 0 THEN -1 ELSE 0

\* C16: for valid inputs the rounded delta_pct the Affordability Calculator
\* returns has the sign of listing_price - city_median: rounding to 4
\* decimals never turns a non-zero difference into 0.
C16_DeltaPctKeepsSign ==
    (AffordAnswered /\ calls[1].status = 200)
    => Sign(calls[1].body.delta_pct)
         = Sign(args.listing_price.n - args.city_median.n)

NearMarketVerdicts ==
    {"Near market; above target ratio", "Near market; below target ratio",
     "Near market and near target ratio"}

NearTargetVerdicts ==
    {"Above market; near target ratio", "Below market; near target ratio",
     "Near market and near target ratio"}

\* C17: the tolerance bands are inclusive: a listing exactly at
\* city_median * 1.02 or city_median * 0.98 is classified near market, and an
\* rti exactly at target_ratio + 0.02 or target_ratio - 0.02 is classified
\* near target.
C17_BandsInclusive ==
    (AffordAnswered /\ calls[1].status = 200)
    => LET listing == args.listing_price.n
           cm == args.city_median.n
           income == args.income_annual.n
           t == IF IsNum(args.target_ratio) THEN args.target_ratio.n ELSE 30
       IN  /\ (100 * listing = 102 * cm \/ 100 * listing = 98 * cm)
                => calls[1].body.verdict \in NearMarketVerdicts
           /\ (1200 * listing = (t + 2) * income \/ 1200 * listing = (t - 2) * income)
                => calls[1].body.verdict \in NearTargetVerdicts

\* the stages of the writes that reached a sink
LocalKept(w) == sinks.local /\ ~w.local_raises
MirrorKept(w) == sinks.s3 /\ ~w.s3_raises
StagesOf(ws) == [i \in 1..Len(ws) |-> ws[i].stage]

\* C21: write_entry and write_step never raise; each sink is tried whether
\* or not the other one failed, so a record reaches every enabled sink that
\* does not fail; and a sink's failure shows only as the local_error or
\* s3_error field of the value returned.
C21_LedgerBestEffort ==
    /\ StagesOf(ledger) = StagesOf(SelectSeq(log_out, LocalKept))
    /\ mirror = StagesOf(SelectSeq(log_out, MirrorKept))
    /\ \A i \in 1..Len(log_out) :
         LET w == log_out[i]
             local_failed == sinks.local /\ w.local_raises
             s3_failed == sinks.s3 /\ w.s3_raises
         IN  IF w.call = "write_entry"
             THEN /\ ("local_error" \in w.entry.keys) = local_failed
                  /\ (w.entry.local_error # "") = local_failed
                  /\ w.entry.ok = ~local_failed
                  /\ ("s3_error" \in w.entry.keys) = s3_failed
                  /\ ("s3_uri" \in w.entry.keys) = ~s3_failed
             ELSE /\ w.step.local.ok = ~local_failed
                  /\ (w.step.local.local_error # "") = local_failed
                  /\ w.step.s3.ok = ~s3_failed
                  /\ (w.step.s3.s3_error # "") = s3_failed

\* a canonical entry whose local append failed went to the mirror all the
\* same, after a step whose mirror write failed was appended locally
C21_Witness ==
    /\ Len(log_out) = 2
    /\ log_out[1].call = "write_step"
    /\ log_out[1].s3_raises /\ ~log_out[1].local_raises
    /\ log_out[2].call = "write_entry"
    /\ log_out[2].local_raises /\ ~log_out[2].s3_raises
    /\ StagesOf(ledger) = <<log_out[1].stage>>
    /\ mirror = <<"entry">>

\* C22: whatever text the finalizer returns, the envelope _converse_finalize
\* produces carries the Policy Engine's result unchanged as tool_result; when
\* the text does not parse, the envelope also keeps the planner's plan and
\* actions and its verify is ok:true with the fallback note.
C22_FinalizeEchoesToolResult ==
    (pc = "finalized")
    => /\ final_pack.tool_result = tool_result
       /\ final_text.kind = "unparsed"
            => /\ final_pack.plan = plan_pack.plan
               /\ final_pack.actions = ListOf(plan_pack.actions)
               /\ final_pack.verify.ok
               /\ final_pack.verify.notes = "Finalize parse fallback"

\* the finalizer's text did not parse after a tool call that returned
\* recommendations on a plan that names an action
C22_Witness ==
    /\ pc = "finalized"
    /\ final_text.kind = "unparsed"
    /\ Len(tool_result.answer.recommendations) > 0
    /\ Len(plan_pack.actions) > 0
    /\ final_pack.tool_result = tool_result

\* the verdict of the Verifier on the finalizer's envelope of this request
VerifierVerdict ==
    _local_verify(Promote(_converse_finalize(final_text, plan_pack.plan,
                                             plan_pack.actions, tool_result)),
                  strict, hints).verify

InsidePolicy == pc \in {"dispatch", "afford_eval", "returned"}

\* C23: with the ledger enabled a run_agent request that completes has
\* written exactly four records, in the order planning, tool_execute,
\* finalize, canonical entry.  The planner is asked before the Policy Engine
\* runs, the Policy Engine returns before the finalizer is asked, and the
\* Verifier runs after the finalizer and before the finalize record and the
\* entry are written, so both carry its verdict.  With no_ledger nothing is
\* written.
C23_LedgerOrder ==
    (caller = "agent")
    => /\ no_ledger => ledger = <<>>
       /\ pc = "planning"
            => ledger = <<>> /\ calls = <<>> /\ final_text = NoFinalText
       /\ (InsidePolicy /\ ~no_ledger)
            => /\ StagesOf(ledger) = <<"planning", "tool_execute">>
               /\ final_text = NoFinalText
       /\ (pc = "finalized" /\ ~no_ledger)
            => /\ StagesOf(ledger) = <<"planning", "tool_execute">>
               /\ final_text # NoFinalText
               /\ final_pack.tool_result = tool_result
       /\ (pc = "done" /\ ~no_ledger)
            => /\ StagesOf(ledger) = <<"planning", "tool_execute", "finalize", "entry">>
               /\ ledger[3].verify = VerifierVerdict
               /\ ledger[4].verify = VerifierVerdict
               /\ final_pack.verify = VerifierVerdict

\* a logged request completed with a verdict of the Verifier that is not
\* the verify mapping the finalizer wrote
C23_Witness ==
    /\ caller = "agent"
    /\ pc = "done"
    /\ ~no_ledger
    /\ Len(ledger) = 4
    /\ Len(calls) > 0
    /\ ~ledger[4].verify.ok
    /\ final_text.verify.ok

\* the dataset the process holds in _CACHE
CachedData == [ok |-> cache.usable, neighbourhoods |-> cache.neighbourhoods]

\* the response is the one the tool computes from the cached dataset
AnsweredFromCache ==
    (pc = "answered" /\ cache.loaded)
    => /\ calls[1].tool = "get_neighbourhood_stats"
            => calls[1].body =
                 tool_stats([city |-> calls[1].city,
                             property_type |-> calls[1].property_type],
                            CachedData).body
       /\ calls[1].tool = "suggest_neighbourhoods"
            => calls[1].body = tool_suggest(SuggestEvent(args), CachedData).body

\* C24: once a dataset load has succeeded, no lookup of the process reads the
\* URL or the local file again, a fallback to the local file included; the
\* cached dataset is never replaced or changed by a provider or tool
\* operation; and every later lookup answers from that cached dataset.
C24_LoadedOnce ==
    /\ []AnsweredFromCache
    /\ [][cache.loaded => /\ cache' = cache
                          /\ reads' = reads \/ reads' = <<>>]_vars

\* a lookup is answered from the local fallback cached earlier, although the
\* local file has changed since and the URL now answers
C24_Witness ==
    /\ pc = "answered"
    /\ calls[1].tool = "get_neighbourhood_stats"
    /\ calls[1].status = 200
    /\ calls[1].body.neighbourhoods # <<>>
    /\ cache.loaded
    /\ reads = <<>>
    /\ live_mode
    /\ remote.outcome = "ok"
    /\ cache.neighbourhoods # remote.neighbourhoods
    /\ cache.neighbourhoods # file.neighbourhoods

\* C25: when two requests race on the first dataset load, both callers and
\* the cache end up with the same dataset: no request works from a dataset
\* other than the one finally cached, also in live mode when the fetch
\* succeeds for one caller and fails for the other.
C25_RaceLeavesOneDataset ==
    (\A t \in Callers : loaders[t].at = "done")
    => /\ loaders[1].data = loaders[2].data
       /\ \A t \in Callers : loaders[t].data = CachedData

\* the reasons after the no-match reason
HintsGiven == Tail(final_pack.verify.reasons)

\* a hint loosens its preference by the step of its kind
Loosens(h) ==
    \/ h.pref = "max_distance_km" /\ h.to = h.from + 3
    \/ h.pref = "min_transit" /\ h.to = h.from - 10
    \/ h.pref = "target_rent_to_income" /\ h.to = h.from + 3

\* min_transit within [0, 100], target ratio at most 0.40
InSaneBounds(h) ==
    /\ h.pref = "min_transit" => 0 <= h.to /\ h.to <= 200
    /\ h.pref = "target_rent_to_income" => h.to <= 40

\* C26: when the strict Verifier fails the no-recommendation rule, its
\* reasons are the no-match reason followed, with hints enabled, by at most
\* two hints, each loosening one preference by its step (distance +3,
\* min_transit -5, target ratio +0.03) to a value within sane bounds
\* (min_transit within [0, 100], target ratio at most 0.40); with hints
\* disabled the reasons hold only the no-match reason.
C26_HintsWithinBounds ==
    (pc = "done" /\ strict /\ IsNoMatch(final_pack.verify))
    => /\ Head(final_pack.verify.reasons) = "No neighborhoods matched"
       /\ Len(HintsGiven) <= (IF hints THEN 2 ELSE 0)
       /\ \A i \in 1..Len(HintsGiven) :
             Loosens(HintsGiven[i]) /\ InSaneBounds(HintsGiven[i])

\* the axis positions of a valid event, as _make_verdict computes them
MarketAxis(listing, cm) ==
    IF (listing - cm) * 100 > 2 * cm THEN "above"
    ELSE IF (listing - cm) * 100 < -(2 * cm) THEN "below"
    ELSE "near"

TargetAxis(listing, income, t) ==
    LET over == 1200 * listing - (t + 2) * income
        under == 1200 * listing - (t - 2) * income
    IN  IF over > 0 \/ (over = 0 /\ TieAboveTarget(t)) THEN "above"
        ELSE IF under < 0 \/ (under = 0 /\ TieBelowTarget(t)) THEN "below"
        ELSE "near"

\* C27: the verdict agrees with the axis positions: it says "Above market"
\* only when delta_pct > 0.02, "Below market" only when delta_pct < -0.02,
\* "above / below target ratio" only when rti is outside target_ratio +- 0.02
\* on that side, and "Near market and near target ratio" only when both
\* axes are within their bands.
C27_VerdictAgreesWithAxes ==
    (AffordAnswered /\ calls[1].status = 200)
    => LET listing == args.listing_price.n
           t == IF IsNum(args.target_ratio) THEN args.target_ratio.n ELSE 30
           market == MarketAxis(listing, args.city_median.n)
           target == TargetAxis(listing, args.income_annual.n, t)
           verdict == calls[1].body.verdict
       IN  /\ verdict \in {"Above market and above target ratio",
                            "Above market; near target ratio"} => market = "above"
           /\ verdict \in {"Below market and below target ratio",
                            "Below market; near target ratio"} => market = "below"
           /\ verdict \in {"Above market and above target ratio",
                            "Near market; above target ratio"} => target = "above"
           /\ verdict \in {"Below market and below target ratio",
                            "Near market; below target ratio"} => target = "below"
           /\ verdict = "Near market and near target ratio"
                => market = "near" /\ target = "near"

\* C28: when the result of decide_and_act reports verify.ok = false, the
\* envelope run_agent returns never reports verify.ok = true, whatever the
\* finalizer produced.
C28_PolicyFailureSurvives ==
    (pc = "done" /\ ~tool_result.verify.ok) => ~final_pack.verify.ok

\* C29: every envelope decide_and_act returns with verify.ok = true has all
\* of its recorded action statuses equal to 200 and an answer without an
\* error field; any envelope holding an action whose status is not 200 has
\* verify.ok = false.
C29_OkMeansEveryCallSucceeded ==
    pc = "returned" =>
      /\ tool_result.verify.ok
           => /\ \A i \in 1..Len(tool_result.actions) :
                    tool_result.actions[i].status = 200
              /\ "error" \notin tool_result.answer.keys
      /\ (\E i \in 1..Len(tool_result.actions) :
             tool_result.actions[i].status # 200)
           => ~tool_result.verify.ok

\* an envelope whose last recorded action failed, returned with ok = false
C29_Witness ==
    /\ pc = "returned"
    /\ Len(tool_result.actions) >= 1
    /\ tool_result.actions[Len(tool_result.actions)].status # 200
    /\ ~tool_result.verify.ok
    /\ "error" \in tool_result.answer.keys

\* C30: no preference state leaks between requests: no request, whatever
\* its preference overrides (nulls included), changes the process-wide
\* default preferences, and the preferences of a request are the merge of
\* that request's prefs with the configured defaults.
C30_NoPrefsLeak ==
    /\ [][default_prefs' = default_prefs]_vars
    /\ []((caller = "agent" /\ pc # "idle")
            => args.prefs = _normalize_prefs(default_prefs, inline_args.prefs))

\* a request that nulled the default distance and raised min_transit has
\* been served, and the defaults are the standard ones
C30_Witness ==
    /\ caller = "agent"
    /\ pc = "done"
    /\ default_prefs = StandardPrefs
    /\ inline_args.prefs.max_distance_km = None
    /\ inline_args.prefs.min_transit = Num(100)
    /\ args.prefs = Prefs(Absent, Num(100), Num(30))

====
